---------------------------- MODULE Spec2Model ----------------------------
(***************************************************************************)
(* A model of the link scraper: the in-page persistent numbering tracker   *)
(* (src/scraper/google.py, src/scraper/bing.py), the collector loop and    *)
(* the engine session (BaseScraper in src/scraper/scraper.py), and the     *)
(* parallel orchestrator with its two formatters (src/scraper/scraper.py,  *)
(* src/main.py).                                                           *)
(*                                                                         *)
(* Strings that the code only compares for equality are TLA+ strings.      *)
(* Strings that the code takes apart or searches (hrefs, hostnames, the    *)
(* excluded-domain patterns) are sequences of tokens; "a in b" of Python   *)
(* is the contiguous-subsequence test on them.                             *)
(***************************************************************************)
EXTENDS Integers, Sequences, FiniteSets, TLC

(***************************************************************************)
(* Bounds of the model.                                                    *)
(***************************************************************************)
\* environment events (DOM mutations, user scrolls, resizes, re-activations)
MaxEvents == 3
\* environment events while the collector loop is followed
MaxCollectEvents == 1
\* largest requested target count
MaxNumLinks == 2
\* a target count larger than the number of links the page can give
LargeNumLinks == 5
\* longest chain of elements from a heading upwards that is classified
MaxChainLen == 6
\* most faults the driver injects into one collector loop that is followed
\* together with the page's environment
MaxFaults == 3
\* most re-scan timers of the mutation/resize kind pending at once
MaxTimers == 2
\* most activations of the highlighter (each registers its own listeners)
MaxListeners == 2

(***************************************************************************)
(* Program constants.                                                      *)
(***************************************************************************)
ScrollStep == 400
ViewportHeight == 720
BottomSlack == 100
max_scroll_attempts == 20

Engines == {"Google", "Bing"}

\* None of Python
None == "<None>"

(***************************************************************************)
(* Token strings.                                                          *)
(***************************************************************************)
\* Python's  p in s  on strings: p occurs in s as a contiguous run
IsSubstring(p, s) ==
    \E i \in 0..(Len(s) - Len(p)) : SubSeq(s, i + 1, i + Len(p)) = p

\* the index of the first "/" token at or after position i, or Len(s)+1
RECURSIVE FirstSlash(_, _)
FirstSlash(s, i) ==
    IF i > Len(s) THEN Len(s) + 1
    ELSE IF s[i] = "/" THEN i
    ELSE FirstSlash(s, i + 1)

\* new URL(href) succeeds: a scheme token followed by a non-empty host
UrlParses(href) ==
    /\ Len(href) >= 2
    /\ href[1] \in {"https://", "http://"}
    /\ href[2] # "/"

\* new URL(href).hostname: the tokens between the scheme and the first "/"
Hostname(href) == SubSeq(href, 2, FirstSlash(href, 2) - 1)

HrefExample == <<"https://", "example", ".", "org", "/", "a">>
HrefYoutube == <<"https://", "www", ".", "youtube", ".", "com", "/", "watch">>
HrefReel    == <<"https://", "www", ".", "instagram", ".", "com", "/", "reel", "/", "1">>
HrefOther   == <<"https://", "other", ".", "net", "/", "b">>
HrefGoogle  == <<"https://", "maps", ".", "google", ".", "com", "/", "m">>
HrefBing    == <<"https://", "www", ".", "bing", ".", "com", "/", "ck">>
HrefBad     == <<"http://", "/", "x">>
NoHref      == <<>>

\* BaseScraper.get_excluded_domains
BaseExcludedDomains ==
    { <<"youtube", ".", "com">>, <<"youtu", ".", "be">>,
      <<"m", ".", "youtube", ".", "com">>, <<"vimeo", ".", "com">>,
      <<"dailymotion", ".", "com">>, <<"twitch", ".", "tv">>,
      <<"tiktok", ".", "com">>,
      <<"instagram", ".", "com", "/", "reel">>,
      <<"facebook", ".", "com", "/", "watch">> }

\* google_domains (GoogleScraper), bing_domains (BingScraper)
OwnDomains(e) ==
    IF e = "Google"
    THEN { <<"google", ".", "com">>, <<"googleapis", ".", "com">>,
           <<"googleusercontent", ".", "com">> }
    ELSE { <<"bing", ".", "com">>, <<"microsoft", ".", "com">>,
           <<"msn", ".", "com">>, <<"microsoftonline", ".", "com">> }

\* an engine that excludes its own domains only
get_excluded_domains_own(e) == OwnDomains(e)

\* GoogleScraper.get_excluded_domains, BingScraper.get_excluded_domains
get_excluded_domains(e) == OwnDomains(e) \cup BaseExcludedDomains

(***************************************************************************)
(* The page: its heading elements.  An element is a record of what the     *)
(* in-page script reads of it.  text and parentText are <<head, tail>>:    *)
(* head is the part substring(0, 100) (resp. substring(0, 50)) keeps.      *)
(* chain[1] is the class/id marker of the heading itself, chain[2] of its  *)
(* parent, and so on upwards.                                              *)
(***************************************************************************)
PlainHeading ==
    [ text |-> <<"Alpha", "">>, parentText |-> <<"pa", "">>,
      childAnchor |-> TRUE, ancestorAnchor |-> FALSE,
      href |-> HrefExample, top |-> 100, height |-> 30,
      organicContainer |-> TRUE, resultItemIndicators |-> FALSE,
      keyword |-> FALSE, longText |-> TRUE,
      chain |-> <<"plain", "b_algo", "plain">> ]

Heading ==
    << PlainHeading,
       [PlainHeading EXCEPT !.text = <<"Beta", "">>, !.href = HrefYoutube,
                            !.top = 300, !.organicContainer = FALSE,
                            !.chain = <<"plain", "plain">>],
       \* a second node that looks like node 1 (a re-rendered copy)
       [PlainHeading EXCEPT !.text = <<"Alpha", " (copy)">>],
       [PlainHeading EXCEPT !.text = <<"Gamma", "">>, !.href = HrefReel,
                            !.top = 900],
       [PlainHeading EXCEPT !.text = <<"Delta", "">>, !.href = HrefOther,
                            !.top = 1300],
       \* a sponsored heading that links to the engine's own pages
       [PlainHeading EXCEPT !.text = <<"Sponsored", "">>, !.href = HrefGoogle,
                            !.top = 500, !.organicContainer = FALSE,
                            !.keyword = TRUE,
                            !.chain = <<"plain", "plain", "b_ad">>],
       \* a heading without any anchor
       [PlainHeading EXCEPT !.text = <<"Epsilon", "">>, !.href = NoHref,
                            !.top = 200, !.childAnchor = FALSE],
       \* another heading that links where node 1 links
       [PlainHeading EXCEPT !.text = <<"Zeta", "">>, !.top = 600],
       \* a heading whose href new URL() rejects
       [PlainHeading EXCEPT !.text = <<"Eta", "">>, !.href = HrefBad,
                            !.top = 650] >>

Nodes == DOMAIN Heading
\* the nodes a DOM mutation of the model attaches or detaches
MutableNodes == {1, 3, 5, 9}
\* the nodes whose CSS display the model toggles
StyledNodes == {1}
\* document.body.scrollHeight
ScrollHeight == 2 * ViewportHeight + 60
MaxScrollY == ScrollHeight - ViewportHeight

\* get_link_selector().upper(): the tag of the engine's headings
TagName(e) == IF e = "Google" THEN "H3" ELSE "H2"

(***************************************************************************)
(* The in-page script: element identity, visibility, classification.       *)
(***************************************************************************)
\* getElementId: `${text.substring(0, 100)}_${parentText}_${tagName}`
getElementId(e, h) == <<h.text[1], h.parentText[1], TagName(e)>>

\* isElementVisible, for a node at scroll position sy: it has a size, its
\* rectangle meets the viewport, and CSS does not hide it
isElementVisible(n, css, sy) ==
    /\ Heading[n].height # 0
    /\ Heading[n].top - sy < ViewportHeight
    /\ Heading[n].top + Heading[n].height - sy > 0
    /\ n \notin css

\* h3HasLink, h2HasLink
HasLink(h) == h.childAnchor \/ h.ancestorAnchor

\* the class/id blocklist of isOrganicSearchResult
Blocklisted(c) ==
    c \in {"b_ad", "b_sponsored", "b_promotion", "b_ai", "b_copilot",
           "b_summary", "sidebar", "related", "carousel"}

\* the levels the ancestor walk of isOrganicSearchResult visits:
\* for (i = 0; i < 5; i++) starting at the heading itself
WalkLevels(h) == { i \in 1..5 : i <= Len(h.chain) }

\* the link checks of isOrganicSearchResult on href
InternalHref(href) ==
    \/ IsSubstring(<<"bing", ".", "com">>, href)
    \/ IsSubstring(<<"microsoft", ".", "com">>, href)
    \/ IsSubstring(<<"copilot">>, href)
    \/ IsSubstring(<<"chatgpt">>, href)
    \/ IsSubstring(<<"#">>, href)
    \/ (Len(href) > 0 /\ href[1] = "javascript:")

ExternalHref(href) == Len(href) > 0 /\ href[1] \in {"http://", "https://"}

\* a classifier that looks at the heading's text before the containers
isOrganicKeywordFirst(h) ==
    IF h.keyword THEN FALSE
    ELSE IF h.organicContainer THEN TRUE
    ELSE IF h.resultItemIndicators THEN TRUE
    ELSE IF \E i \in WalkLevels(h) : Blocklisted(h.chain[i]) THEN FALSE
    ELSE IF HasLink(h) /\ h.href # NoHref /\ InternalHref(h.href) THEN FALSE
    ELSE IF HasLink(h) /\ ExternalHref(h.href) THEN TRUE
    ELSE h.childAnchor /\ h.longText

\* isOrganicSearchResult (Bing): the rules in the order of the code
isOrganicSearchResult(h) ==
    IF h.organicContainer THEN TRUE
    ELSE IF h.resultItemIndicators THEN TRUE
    ELSE IF h.keyword THEN FALSE
    ELSE IF \E i \in WalkLevels(h) : Blocklisted(h.chain[i]) THEN FALSE
    ELSE IF HasLink(h) /\ h.href # NoHref /\ InternalHref(h.href) THEN FALSE
    ELSE IF HasLink(h) /\ ExternalHref(h.href) THEN TRUE
    ELSE h.childAnchor /\ h.longText

\* the filter at the head of the forEach body of processH3Elements /
\* processH2Elements
IsCandidate(e, n) ==
    /\ HasLink(Heading[n])
    /\ (e = "Bing" => isOrganicSearchResult(Heading[n]))

(***************************************************************************)
(* State.                                                                  *)
(***************************************************************************)
VARIABLES
    \* the page of one engine session
    engine,               \* "Google" or "Bing": which script the page runs
    attached,             \* the nodes document.body contains
    hiddenCss,            \* the nodes CSS hides (display: none)
    scrollY,              \* window.scrollY
    events,               \* environment events so far
    \* the injected script's closure
    injected,             \* window.googleH3HighlighterInjected
    isHighlightingActive,
    globalLinkCounter,
    processedLinks,       \* the Map's entries [id, number, element], in insertion order
    activeHighlights,     \* elementId -> [element, number]
    listeners,            \* observers/listeners registered by activations
    scrollTimers,         \* pending scrollTimeout timers (one per listener)
    mutationTimers,       \* pending timers set by mutation/resize callbacks
    \* collect_links
    num_links,
    cpc,                  \* where collect_links stands
    collected_links,
    collected_urls,
    scroll_attempts,
    polls,                \* evaluations of getHighlightedLinksInfo so far
    faults,               \* awaited calls of collect_links that raised (up to MaxFaults)
    \* the two engine sessions (BaseScraper.run), per engine
    debug,                \* keep the browsers open
    pc,                   \* where run stands
    browser,              \* self.browser: "none", "open", "closed"
    driver,               \* playwright: "none", "started", "stopped"
    pending,              \* what run is about to return while finally runs
    outcome,              \* how run ended: it returned a result or raised
    trace,                \* the stages run has entered, in order
    searched,             \* how perform_search went: "none" before it
    \* the orchestrator and the formatter
    opc,                  \* "gather", "returned", "formatted"
    results,              \* what run_scrapers returned
    entry,                \* "scraper" (run_search) or "main" (main.py)
    output_mode,          \* "terminal" or "json"
    shown,                \* the links presented: [google, bing]
    removed_duplicates,   \* the count the terminal formatter reports
    \* one call of isOrganicSearchResult
    h2,                   \* the heading it is called on
    verdict,              \* what it returned: "none" before the call
    \* the session of the other engine, on a browser and a page of its own
    peer                  \* [engine, cpc, scrollY, tracker, links, urls, attempts]

pageVars == <<engine, attached, hiddenCss, scrollY, events>>
trackerVars == <<injected, isHighlightingActive, globalLinkCounter,
                 processedLinks, activeHighlights, listeners, scrollTimers,
                 mutationTimers>>
collectVars == <<num_links, cpc, collected_links, collected_urls,
                 scroll_attempts, polls, faults>>
sessionVars == <<debug, pc, browser, driver, pending, outcome, trace, searched>>
orchVars == <<opc, results, entry, output_mode, shown, removed_duplicates>>
classifyVars == <<h2, verdict>>
peerVars == <<peer>>
runVars == <<sessionVars, orchVars, classifyVars, peerVars>>

\* a function with the empty domain: new Map()
EmptyMap == [x \in {} |-> x]

\* Map.set(k, v)
MapSet(m, k, v) == [x \in DOMAIN m \cup {k} |-> IF x = k THEN v ELSE m[x]]

\* the map without the keys outside keep: Map.delete on the others
MapKeep(m, keep) == [x \in DOMAIN m \cap keep |-> m[x]]

(***************************************************************************)
(* processH3Elements / processH2Elements.  The tracker state is passed as  *)
(* a record t = [counter, processed, active, visible]; visible is the      *)
(* local set currentlyVisible.  processedLinks is a JavaScript Map, which  *)
(* keeps its entries in insertion order: it is the sequence of its entries *)
(* (firstSeen, a timestamp the script stores and never reads, is left      *)
(* out).                                                                   *)
(***************************************************************************)
\* processedLinks.has(id)
ProcessedHas(processed, id) == \E i \in DOMAIN processed : processed[i].id = id

\* processedLinks.get(id)
ProcessedGet(processed, id) ==
    processed[CHOOSE i \in DOMAIN processed : processed[i].id = id]

\* a tracker that forgets to advance the counter
NewNumberStale(counter) == counter

\* the number a newly discovered link gets: globalLinkCounter++ comes first
NewNumber(counter) == counter + 1

\* Map.set on a key the Map has: the value is replaced in place
ProcessedSet(processed, id, rec) ==
    [i \in DOMAIN processed |-> IF processed[i].id = id THEN rec ELSE processed[i]]

\* a tracker that numbers a link anew each time it becomes visible again
ScanVisibleNodeRenumber(e, t, n) ==
    LET id == getElementId(e, Heading[n])
        isNew == id \notin DOMAIN t.active
        counter == IF isNew THEN t.counter + 1 ELSE t.counter
        rec == [id |-> id, number |-> counter, element |-> n]
        processed ==
            IF ~isNew THEN t.processed
            ELSE IF \E i \in DOMAIN t.processed : t.processed[i].id = id
            THEN ProcessedSet(t.processed, id, rec)
            ELSE Append(t.processed, rec)
        active ==
            IF isNew
            THEN MapSet(t.active, id, [element |-> n, number |-> counter])
            ELSE t.active
    IN  [counter |-> counter, processed |-> processed, active |-> active,
         visible |-> t.visible \cup {id}]

\* a tracker that knows a link by its node, not by its fingerprint
ScanVisibleNodeByElement(e, t, n) ==
    LET id == getElementId(e, Heading[n])
        isNew == ~\E i \in DOMAIN t.processed : t.processed[i].element = n
        counter == IF isNew THEN NewNumber(t.counter) ELSE t.counter
        processed ==
            IF isNew
            THEN Append(t.processed,
                        [id |-> id, number |-> counter, element |-> n])
            ELSE t.processed
        active ==
            IF id \notin DOMAIN t.active
            THEN MapSet(t.active, id, [element |-> n, number |-> counter])
            ELSE t.active
    IN  [counter |-> counter, processed |-> processed, active |-> active,
         visible |-> t.visible \cup {id}]

\* the body of the forEach for node n, when the node is visible
ScanVisibleNode(e, t, n) ==
    LET id == getElementId(e, Heading[n])
        isNew == ~ProcessedHas(t.processed, id)
        counter == IF isNew THEN NewNumber(t.counter) ELSE t.counter
        processed ==
            IF isNew
            THEN Append(t.processed,
                        [id |-> id, number |-> counter, element |-> n])
            ELSE t.processed
        active ==
            IF id \notin DOMAIN t.active
            THEN MapSet(t.active, id,
                        [element |-> n,
                         number |-> ProcessedGet(processed, id).number])
            ELSE t.active   \* updateHighlight only moves the overlay
    IN  [counter |-> counter, processed |-> processed, active |-> active,
         visible |-> t.visible \cup {id}]

\* the forEach over querySelectorAll('h3'), in document order from node i
\* (the tracker state is bound once per node, as a value)
RECURSIVE ScanFrom(_, _, _, _, _, _)
ScanFrom(e, t, i, att, css, sy) ==
    IF i > Len(Heading) THEN t
    ELSE IF i \in att /\ IsCandidate(e, i) /\ isElementVisible(i, css, sy)
    THEN LET scanned == { ScanVisibleNode(e, s, i) : s \in {t} }
         IN  ScanFrom(e, CHOOSE r \in scanned : TRUE, i + 1, att, css, sy)
    ELSE ScanFrom(e, t, i + 1, att, css, sy)

\* a scan without the loop after the forEach
DropInvisibleKeepAll(t) == t

\* the loop after the forEach: drop the active entries no longer visible
DropInvisible(t) == [t EXCEPT !.active = MapKeep(t.active, t.visible)]

\* a scan that does not look at isHighlightingActive
processElementsAlways(e, act, t, att, css, sy) ==
    LET s == DropInvisible(
                 ScanFrom(e, [t EXCEPT !.visible = {}], 1, att, css, sy))
    IN  [s EXCEPT !.visible = {}]

\* the whole function, from tracker state [counter, processed, active]
processElements(e, act, t, att, css, sy) ==
    IF ~act THEN t
    ELSE LET s == DropInvisible(
                     ScanFrom(e, [t EXCEPT !.visible = {}], 1, att, css, sy))
         IN  [s EXCEPT !.visible = {}]

Tracker == [counter |-> globalLinkCounter, processed |-> processedLinks,
            active |-> activeHighlights, visible |-> {}]

(***************************************************************************)
(* window.getHighlightedLinksInfo.                                         *)
(***************************************************************************)
\* the active entries whose element document.body still contains
LiveEntries(active, att) == { id \in DOMAIN active : active[id].element \in att }

\* a poll that never throws
PollNeverThrows(active, att) == FALSE

\* new URL(linkElement.href) throws for one of the entries visited
PollThrows(active, att) ==
    \E id \in LiveEntries(active, att) :
        ~UrlParses(Heading[active[id].element].href)

\* the record pushed for one entry
LinkInfo(item) ==
    LET h == Heading[item.element]
    IN  [number |-> item.number, title |-> h.text, url |-> h.href,
         domain |-> Hostname(h.href)]

\* links.sort((a, b) => a.number - b.number), on a set of records
RECURSIVE SortByNumber(_)
SortByNumber(S) ==
    LET sorted ==
            { IF T = {} THEN <<>>
              ELSE LET m == CHOOSE x \in T : \A y \in T : x.number <= y.number
                   IN  <<m>> \o SortByNumber(T \ {m}) : T \in {S} }
    IN  CHOOSE r \in sorted : TRUE

getHighlightedLinksInfo(active, att) ==
    SortByNumber({ LinkInfo(active[id]) : id \in LiveEntries(active, att) })

(***************************************************************************)
(* Actions of the injected script.                                         *)
(***************************************************************************)
SetTracker(t) ==
    /\ globalLinkCounter' = t.counter
    /\ processedLinks' = t.processed
    /\ activeHighlights' = t.active

\* processH3Elements() / processH2Elements() on the page as it is now
RunScan ==
    SetTracker(processElements(engine, isHighlightingActive, Tracker,
                               attached, hiddenCss, scrollY))

\* an injection that installs the script anew each time
InjectScriptAnew ==
    /\ injected' = TRUE
    /\ globalLinkCounter' = 0
    /\ processedLinks' = <<>>
    /\ activeHighlights' = EmptyMap
    /\ isHighlightingActive' = FALSE
    /\ UNCHANGED <<listeners, scrollTimers, mutationTimers>>

\* the injected function: a second injection returns 'Already injected'
InjectScript ==
    IF injected
    THEN UNCHANGED trackerVars
    ELSE /\ injected' = TRUE
         /\ globalLinkCounter' = 0
         /\ processedLinks' = <<>>
         /\ activeHighlights' = EmptyMap
         /\ isHighlightingActive' = FALSE
         /\ UNCHANGED <<listeners, scrollTimers, mutationTimers>>

\* window.activateGoogleH3Highlighting / window.activateBingH2Highlighting
ActivateScript ==
    /\ isHighlightingActive' = TRUE
    /\ SetTracker(processElements(engine, TRUE, Tracker,
                                  attached, hiddenCss, scrollY))
    /\ listeners' = listeners + 1
    /\ UNCHANGED <<injected, scrollTimers, mutationTimers>>

\* window.clearGoogleH3Highlights / window.clearBingH2Highlights
ClearScript ==
    /\ isHighlightingActive' = FALSE
    /\ activeHighlights' = EmptyMap
    /\ UNCHANGED <<injected, globalLinkCounter, processedLinks, listeners,
                   scrollTimers, mutationTimers>>

\* the MutationObserver and resize callbacks: each registered callback sets
\* a timer of its own, and none clears an earlier one
OnMutationOrResize ==
    /\ mutationTimers' = IF isHighlightingActive
                         THEN mutationTimers + listeners
                         ELSE mutationTimers
    /\ UNCHANGED <<injected, isHighlightingActive, globalLinkCounter,
                   processedLinks, activeHighlights, listeners, scrollTimers>>

\* the scroll listeners: clearTimeout(scrollTimeout), then a new timer
OnScroll ==
    /\ scrollTimers' = IF isHighlightingActive THEN listeners
                       ELSE scrollTimers
    /\ UNCHANGED <<injected, isHighlightingActive, globalLinkCounter,
                   processedLinks, activeHighlights, listeners, mutationTimers>>

\* window.scrollBy(0, dy): the browser clamps the position
ScrollTo(dy) ==
    LET y == scrollY + dy
    IN  IF y < 0 THEN 0 ELSE IF y > MaxScrollY THEN MaxScrollY ELSE y

(***************************************************************************)
(* The environment of the page: DOM mutations, style changes, scrolls and  *)
(* resizes that the page or its user causes, and further calls of the      *)
(* script's entry points.                                                  *)
(***************************************************************************)
EnvStep ==
    /\ events < MaxEvents
    /\ events' = events + 1

TimersFit == ~isHighlightingActive \/ mutationTimers + listeners <= MaxTimers

\* a childList mutation: node n is attached or detached
MutateNode(n) ==
    /\ EnvStep /\ TimersFit
    /\ attached' = IF n \in attached THEN attached \ {n} ELSE attached \cup {n}
    /\ OnMutationOrResize
    /\ UNCHANGED <<engine, hiddenCss, scrollY>>
    /\ UNCHANGED collectVars
    /\ UNCHANGED runVars

\* a re-render: node a is replaced by a detached node b that has the same
\* element id
ReplaceNode(a, b) ==
    /\ EnvStep /\ TimersFit
    /\ a \in attached /\ b \notin attached
    /\ getElementId(engine, Heading[a]) = getElementId(engine, Heading[b])
    /\ attached' = (attached \ {a}) \cup {b}
    /\ OnMutationOrResize
    /\ UNCHANGED <<engine, hiddenCss, scrollY>>
    /\ UNCHANGED collectVars
    /\ UNCHANGED runVars

\* a style change; the observer watches childList only, so no callback runs
RestyleNode(n) ==
    /\ EnvStep
    /\ hiddenCss' = IF n \in hiddenCss THEN hiddenCss \ {n} ELSE hiddenCss \cup {n}
    /\ UNCHANGED <<engine, attached, scrollY>>
    /\ UNCHANGED trackerVars
    /\ UNCHANGED collectVars
    /\ UNCHANGED runVars

\* the user (or the page) scrolls by dy
UserScroll(dy) ==
    /\ EnvStep
    /\ scrollY' = ScrollTo(dy)
    /\ OnScroll
    /\ UNCHANGED <<engine, attached, hiddenCss>>
    /\ UNCHANGED collectVars
    /\ UNCHANGED runVars

Resize ==
    /\ EnvStep /\ TimersFit
    /\ OnMutationOrResize
    /\ UNCHANGED <<engine, attached, hiddenCss, scrollY>>
    /\ UNCHANGED collectVars
    /\ UNCHANGED runVars

\* a repeated evaluation of the injected function
ReInject ==
    /\ EnvStep
    /\ injected
    /\ InjectScript
    /\ UNCHANGED <<engine, attached, hiddenCss, scrollY>>
    /\ UNCHANGED collectVars
    /\ UNCHANGED runVars

\* a further call of the activate function
ReActivate ==
    /\ EnvStep
    /\ injected /\ listeners >= 1 /\ listeners < MaxListeners
    /\ ActivateScript
    /\ UNCHANGED <<engine, attached, hiddenCss, scrollY>>
    /\ UNCHANGED collectVars
    /\ UNCHANGED runVars

\* a call of the clear function
ClearHighlights ==
    /\ EnvStep
    /\ injected
    /\ ClearScript
    /\ UNCHANGED <<engine, attached, hiddenCss, scrollY>>
    /\ UNCHANGED collectVars
    /\ UNCHANGED runVars

\* a pending scroll timer fires: setTimeout(processH3Elements, 50)
FireScrollTimer ==
    /\ scrollTimers > 0
    /\ scrollTimers' = scrollTimers - 1
    /\ RunScan
    /\ UNCHANGED <<injected, isHighlightingActive, listeners, mutationTimers>>
    /\ UNCHANGED <<engine, attached, hiddenCss, scrollY, events>>
    /\ UNCHANGED collectVars
    /\ UNCHANGED runVars

\* a pending mutation or resize timer fires: setTimeout(processH3Elements, 100)
FireMutationTimer ==
    /\ mutationTimers > 0
    /\ mutationTimers' = mutationTimers - 1
    /\ RunScan
    /\ UNCHANGED <<injected, isHighlightingActive, listeners, scrollTimers>>
    /\ UNCHANGED <<engine, attached, hiddenCss, scrollY, events>>
    /\ UNCHANGED collectVars
    /\ UNCHANGED runVars

(***************************************************************************)
(* BaseScraper.collect_links, and the two calls of BaseScraper.run that    *)
(* precede it on the page (inject_highlighter, activate).                  *)
(* cpc: "inject" -> "activate" -> "poll" -> "scroll" -> "wait" -> "bottom" *)
(* -> "poll" ... -> "done".                                                *)
(***************************************************************************)
\* one more awaited call has raised: they are counted up to MaxFaults
CountFault(n) == IF n < MaxFaults THEN n + 1 ELSE n

\* any(domain in link['domain'] for domain in self.get_excluded_domains())
IsExcluded(e, link) ==
    \E domain \in get_excluded_domains(e) : IsSubstring(domain, link.domain)

\* a loop body that does not look at the length of the list
AppendLinkNoCap(e, n, c, link) ==
    IF link.url \notin c.urls
    THEN IF \E domain \in get_excluded_domains(e) : IsSubstring(domain, link.domain)
         THEN c
         ELSE [links |-> Append(c.links, link), urls |-> c.urls \cup {link.url}]
    ELSE c

\* a loop body that never adds to collected_urls
AppendLinkNoUrlSet(e, n, c, link) ==
    IF link.url \notin c.urls /\ Len(c.links) < n
    THEN IF IsExcluded(e, link) THEN c
         ELSE [links |-> Append(c.links, link), urls |-> c.urls]
    ELSE c

\* the body of  for link in current_links  for one link, on
\* c = [links |-> collected_links, urls |-> collected_urls]
AppendLink(e, n, c, link) ==
    IF link.url \notin c.urls /\ Len(c.links) < n
    THEN IF IsExcluded(e, link) THEN c
         ELSE [links |-> Append(c.links, link), urls |-> c.urls \cup {link.url}]
    ELSE c

\* the for loop over current_links from index i
RECURSIVE AppendLinks(_, _, _, _, _)
AppendLinks(e, n, c, current_links, i) ==
    IF i > Len(current_links) THEN c
    ELSE LET appended == { AppendLink(e, n, d, current_links[i]) : d \in {c} }
         IN  AppendLinks(e, n, CHOOSE r \in appended : TRUE, current_links, i + 1)

\* await self.inject_highlighter(self.page)
SessionInject ==
    /\ cpc = "inject"
    /\ InjectScript
    /\ cpc' = "activate"
    /\ UNCHANGED pageVars
    /\ UNCHANGED <<num_links, collected_links, collected_urls, scroll_attempts, polls, faults>>
    /\ UNCHANGED runVars

\* await self.page.evaluate("window.activate...Highlighting()")
SessionActivate ==
    /\ cpc = "activate"
    /\ ActivateScript
    /\ cpc' = "poll"
    /\ UNCHANGED <<engine, attached, hiddenCss, scrollY, events>>
    /\ UNCHANGED <<num_links, collected_links, collected_urls, scroll_attempts, polls, faults>>
    /\ UNCHANGED runVars

\* a loop that the number of scrolls does not end
WhileConditionNoCap(links, n, attempts) == Len(links) < n

\* while len(collected_links) < self.num_links and
\*       scroll_attempts < max_scroll_attempts
WhileCondition(links, n, attempts) ==
    Len(links) < n /\ attempts < max_scroll_attempts

\* a loop that a failed poll ends
CollectPollFatal(fault) ==
    /\ cpc = "poll"
    /\ IF WhileCondition(collected_links, num_links, scroll_attempts)
       THEN LET raised == fault \/ PollThrows(activeHighlights, attached)
                current_links ==
                    IF raised THEN <<>>
                    ELSE getHighlightedLinksInfo(activeHighlights, attached)
                c == AppendLinks(engine, num_links,
                                 [links |-> collected_links, urls |-> collected_urls],
                                 current_links, 1)
            IN  /\ collected_links' = c.links
                /\ collected_urls' = c.urls
                /\ polls' = polls + 1
                /\ faults' = IF raised THEN CountFault(faults) ELSE faults
                /\ cpc' = IF raised \/ Len(c.links) >= num_links THEN "done"
                          ELSE "scroll"
       ELSE /\ cpc' = "done"
            /\ UNCHANGED <<collected_links, collected_urls, polls, faults>>
    /\ UNCHANGED <<num_links, scroll_attempts>>
    /\ UNCHANGED pageVars
    /\ UNCHANGED trackerVars
    /\ UNCHANGED runVars

\* a poll without the break that follows the for loop
CollectPollNoBreak(fault) ==
    /\ cpc = "poll"
    /\ IF WhileCondition(collected_links, num_links, scroll_attempts)
       THEN LET raised == fault \/ PollThrows(activeHighlights, attached)
                current_links ==
                    IF raised THEN <<>>
                    ELSE getHighlightedLinksInfo(activeHighlights, attached)
                c == AppendLinks(engine, num_links,
                                 [links |-> collected_links, urls |-> collected_urls],
                                 current_links, 1)
            IN  /\ collected_links' = c.links
                /\ collected_urls' = c.urls
                /\ polls' = polls + 1
                /\ faults' = IF raised THEN CountFault(faults) ELSE faults
                /\ cpc' = "scroll"
       ELSE /\ cpc' = "done"
            /\ UNCHANGED <<collected_links, collected_urls, polls, faults>>
    /\ UNCHANGED <<num_links, scroll_attempts>>
    /\ UNCHANGED pageVars
    /\ UNCHANGED trackerVars
    /\ UNCHANGED runVars

\* the loop head, the poll and the for loop, up to  if len(...) >= num_links.
\* fault: page.evaluate raised for a reason of the driver's
CollectPoll(fault) ==
    /\ cpc = "poll"
    /\ IF WhileCondition(collected_links, num_links, scroll_attempts)
       THEN LET raised == fault \/ PollThrows(activeHighlights, attached)
                current_links ==
                    IF raised THEN <<>>
                    ELSE getHighlightedLinksInfo(activeHighlights, attached)
                c == AppendLinks(engine, num_links,
                                 [links |-> collected_links, urls |-> collected_urls],
                                 current_links, 1)
            IN  /\ collected_links' = c.links
                /\ collected_urls' = c.urls
                /\ polls' = polls + 1
                /\ faults' = IF raised THEN CountFault(faults) ELSE faults
                /\ cpc' = IF Len(c.links) >= num_links THEN "done" ELSE "scroll"
       ELSE /\ cpc' = "done"
            /\ UNCHANGED <<collected_links, collected_urls, polls, faults>>
    /\ UNCHANGED <<num_links, scroll_attempts>>
    /\ UNCHANGED pageVars
    /\ UNCHANGED trackerVars
    /\ UNCHANGED runVars

\* await self.page.evaluate("window.scrollBy(0, 400)")
CollectScroll ==
    /\ cpc = "scroll"
    /\ scrollY' = ScrollTo(ScrollStep)
    /\ OnScroll
    /\ cpc' = "wait"
    /\ UNCHANGED <<engine, attached, hiddenCss, events>>
    /\ UNCHANGED <<num_links, collected_links, collected_urls, scroll_attempts, polls, faults>>
    /\ UNCHANGED runVars

\* a loop that gives up what it has collected when the scroll raises
CollectScrollFaultDrop ==
    /\ cpc = "scroll"
    /\ cpc' = "done"
    /\ faults' = CountFault(faults)
    /\ collected_links' = <<>>
    /\ collected_urls' = {}
    /\ UNCHANGED <<num_links, scroll_attempts, polls>>
    /\ UNCHANGED pageVars
    /\ UNCHANGED trackerVars
    /\ UNCHANGED runVars

\* the scroll raised: break
CollectScrollFault ==
    /\ cpc = "scroll"
    /\ cpc' = "done"
    /\ faults' = CountFault(faults)
    /\ UNCHANGED <<num_links, collected_links, collected_urls, scroll_attempts, polls>>
    /\ UNCHANGED pageVars
    /\ UNCHANGED trackerVars
    /\ UNCHANGED runVars

\* await self.page.wait_for_timeout(1500); scroll_attempts += 1.
\* The 50 ms timers the scroll set have fired by the end of the wait.
CollectWait ==
    /\ cpc = "wait"
    /\ scrollTimers = 0
    /\ scroll_attempts' = scroll_attempts + 1
    /\ cpc' = "bottom"
    /\ UNCHANGED <<num_links, collected_links, collected_urls, polls, faults>>
    /\ UNCHANGED pageVars
    /\ UNCHANGED trackerVars
    /\ UNCHANGED runVars

\* the wait raised: break
CollectWaitFault ==
    /\ cpc = "wait"
    /\ cpc' = "done"
    /\ faults' = CountFault(faults)
    /\ UNCHANGED <<num_links, collected_links, collected_urls, scroll_attempts, polls>>
    /\ UNCHANGED pageVars
    /\ UNCHANGED trackerVars
    /\ UNCHANGED runVars

\* (window.innerHeight + window.scrollY) >= document.body.scrollHeight - 100
AtBottom == ViewportHeight + scrollY >= ScrollHeight - BottomSlack

\* a loop that reads the tracker once more when it has found the bottom
CollectBottomFinalPoll(fault) ==
    /\ cpc = "bottom"
    /\ cpc' = IF ~fault /\ AtBottom THEN "done" ELSE "poll"
    /\ faults' = IF fault THEN CountFault(faults) ELSE faults
    /\ IF ~fault /\ AtBottom /\ ~PollThrows(activeHighlights, attached)
       THEN LET c == AppendLinks(engine, num_links,
                                 [links |-> collected_links, urls |-> collected_urls],
                                 getHighlightedLinksInfo(activeHighlights, attached), 1)
            IN  /\ collected_links' = c.links
                /\ collected_urls' = c.urls
                /\ polls' = polls + 1
       ELSE UNCHANGED <<collected_links, collected_urls, polls>>
    /\ UNCHANGED <<num_links, scroll_attempts>>
    /\ UNCHANGED pageVars
    /\ UNCHANGED trackerVars
    /\ UNCHANGED runVars

\* the bottom check; fault: the evaluation raised, so at_bottom = False
CollectBottom(fault) ==
    /\ cpc = "bottom"
    /\ cpc' = IF ~fault /\ AtBottom THEN "done" ELSE "poll"
    /\ faults' = IF fault THEN CountFault(faults) ELSE faults
    /\ UNCHANGED <<num_links, collected_links, collected_urls, scroll_attempts, polls>>
    /\ UNCHANGED pageVars
    /\ UNCHANGED trackerVars
    /\ UNCHANGED runVars

(***************************************************************************)
(* The session of the other engine: a second scraper object with a page,   *)
(* a script closure and a collected list of its own.  Its page is the page *)
(* as loaded, and none of its calls raises.  One step of it is a function  *)
(* of its own record.                                                      *)
(***************************************************************************)
OtherEngine(e) == CHOOSE o \in Engines : o # e

\* GoogleScraper(...) / BingScraper(...): BaseScraper.__init__, and the
\* closure of the script not yet injected
NewSession(e) ==
    [ engine |-> e, cpc |-> "inject", scrollY |-> 0,
      tracker |-> [counter |-> 0, processed |-> <<>>, active |-> EmptyMap,
                   visible |-> {}],
      links |-> <<>>, urls |-> {}, attempts |-> 0 ]

\* the page of session p, scanned at scroll position sy
ScanAt(p, sy) ==
    processElements(p.engine, TRUE, p.tracker, Nodes \ {3, 9}, {}, sy)

\* the next awaited part of run and collect_links of session p, for the
\* target count n: the injection; the activation with its scan; the loop
\* head with the poll and the for loop; the scroll with the scan its timer
\* starts during the wait, and the bottom check
Advance(p, n) ==
    CASE p.cpc = "inject" -> [p EXCEPT !.cpc = "activate"]
      [] p.cpc = "activate" ->
            [p EXCEPT !.tracker = ScanAt(p, p.scrollY), !.cpc = "poll"]
      [] p.cpc = "poll" ->
            IF WhileCondition(p.links, n, p.attempts)
            THEN LET att == Nodes \ {3, 9}
                     current_links ==
                         IF PollThrows(p.tracker.active, att) THEN <<>>
                         ELSE getHighlightedLinksInfo(p.tracker.active, att)
                     c == AppendLinks(p.engine, n,
                                      [links |-> p.links, urls |-> p.urls],
                                      current_links, 1)
                 IN  [p EXCEPT !.links = c.links, !.urls = c.urls,
                               !.cpc = IF Len(c.links) >= n THEN "done"
                                       ELSE "scroll"]
            ELSE [p EXCEPT !.cpc = "done"]
      [] p.cpc = "scroll" ->
            LET y == IF p.scrollY + ScrollStep > MaxScrollY THEN MaxScrollY
                     ELSE p.scrollY + ScrollStep
            IN  [p EXCEPT !.scrollY = y,
                          !.tracker = ScanAt(p, y),
                          !.attempts = p.attempts + 1,
                          !.cpc = IF ViewportHeight + y >= ScrollHeight - BottomSlack
                                  THEN "done" ELSE "poll"]
      [] OTHER -> p

\* a second session that counts in the counter of the first
PeerStepSharedCounter ==
    /\ peer.cpc # "done"
    /\ peer' = Advance([peer EXCEPT !.tracker.counter = globalLinkCounter],
                       num_links)
    /\ globalLinkCounter' = peer'.tracker.counter
    /\ UNCHANGED pageVars
    /\ UNCHANGED <<injected, isHighlightingActive, processedLinks,
                   activeHighlights, listeners, scrollTimers, mutationTimers>>
    /\ UNCHANGED collectVars
    /\ UNCHANGED <<sessionVars, orchVars, classifyVars>>

\* the other coroutine of asyncio.gather runs up to its next await
PeerStep ==
    /\ peer.cpc # "done"
    /\ peer' = Advance(peer, num_links)
    /\ UNCHANGED pageVars
    /\ UNCHANGED trackerVars
    /\ UNCHANGED collectVars
    /\ UNCHANGED <<sessionVars, orchVars, classifyVars>>

(***************************************************************************)
(* BaseScraper.run, one action per awaited stage.  A stage either succeeds *)
(* or raises; the text of a fault names the call that raised.              *)
(* pc: "start" -> "setup" -> "goto" -> "cookies" -> "search" -> "inject"   *)
(* -> "activate" -> "collect" -> "linger" -> "close" -> "stop" -> "done".  *)
(***************************************************************************)
\* self.__class__.__name__.replace('Scraper', '')
SourceName(e) == e

\* a failure dict that carries no error text
FailedResultNoError(source, err) ==
    [source |-> source, links |-> <<>>, status |-> "failed", error |-> None]

\* the dictionary of the failure returns of run and of run_scrapers
FailedResult(source, err) ==
    [source |-> source, links |-> <<>>, status |-> "failed", error |-> err]

\* a run that reports a collection without links as a failure
SuccessResultIfAny(source, links) ==
    [source |-> source, links |-> links,
     status |-> IF links = <<>> THEN "failed" ELSE "success",
     error |-> IF links = <<>> THEN "No links collected" ELSE None]

\* the dictionary run prepares after collect_links
SuccessResult(source, links) ==
    [source |-> source, links |-> links, status |-> "success", error |-> None]

\* a stage is entered: its call is made
Enter(e, stage) == trace' = [trace EXCEPT ![e] = Append(@, stage)]

\* except Exception as e: the failure return is prepared, finally runs next
ExceptHandler(e, err) ==
    /\ pending' = [pending EXCEPT ![e] =
                       [kind |-> "return", result |-> FailedResult(SourceName(e), err)]]
    /\ pc' = [pc EXCEPT ![e] = "close"]

\* run ends: it returns what was pending
Finish(e) ==
    /\ outcome' = [outcome EXCEPT ![e] = pending[e]]
    /\ pc' = [pc EXCEPT ![e] = "done"]

\* run ends by raising err
Escape(e, err) ==
    /\ outcome' = [outcome EXCEPT ![e] = [kind |-> "raise", error |-> err]]
    /\ pc' = [pc EXCEPT ![e] = "done"]

NotRun == /\ UNCHANGED pageVars
          /\ UNCHANGED trackerVars
          /\ UNCHANGED collectVars
          /\ UNCHANGED orchVars
          /\ UNCHANGED classifyVars
          /\ UNCHANGED peerVars
          /\ UNCHANGED debug

\* playwright = await async_playwright().start(): before the try block
RunStart(e, fault) ==
    /\ pc[e] = "start"
    /\ Enter(e, "start")
    /\ IF fault
       THEN /\ Escape(e, "driver start failed")
            /\ UNCHANGED driver
       ELSE /\ driver' = [driver EXCEPT ![e] = "started"]
            /\ pc' = [pc EXCEPT ![e] = "setup"]
            /\ UNCHANGED outcome
    /\ UNCHANGED <<browser, pending>>
    /\ UNCHANGED searched
    /\ NotRun

\* await self.setup_browser(playwright): launch, new_context, new_page.
\* how: "ok", "launch" (launch raised), "page" (a later call raised)
RunSetup(e, how) ==
    /\ pc[e] = "setup"
    /\ Enter(e, "setup")
    /\ browser' = [browser EXCEPT ![e] = IF how = "launch" THEN "none" ELSE "open"]
    /\ CASE how = "ok" -> /\ pc' = [pc EXCEPT ![e] = "goto"]
                          /\ UNCHANGED pending
         [] how = "launch" -> ExceptHandler(e, "browser launch failed")
         [] how = "page" -> ExceptHandler(e, "new page failed")
    /\ UNCHANGED <<driver, outcome>>
    /\ UNCHANGED searched
    /\ NotRun

\* await self.page.goto(...); await self.page.wait_for_timeout(3000)
RunGoto(e, fault) ==
    /\ pc[e] = "goto"
    /\ Enter(e, "goto")
    /\ IF fault
       THEN ExceptHandler(e, "navigation failed")
       ELSE /\ pc' = [pc EXCEPT ![e] = "cookies"]
            /\ UNCHANGED pending
    /\ UNCHANGED <<browser, driver, outcome>>
    /\ UNCHANGED searched
    /\ NotRun

\* await self.accept_cookies(): it catches every fault of its own
RunCookies(e) ==
    /\ pc[e] = "cookies"
    /\ Enter(e, "cookies")
    /\ pc' = [pc EXCEPT ![e] = "search"]
    /\ UNCHANGED <<browser, driver, pending, outcome>>
    /\ UNCHANGED searched
    /\ NotRun

\* a search that goes on without a search box
perform_search_anyway(how) == how \in {"ok", "timeout", "nobox"}

\* what perform_search returns.  how: "ok"; "timeout" (wait_for_selector
\* timed out, which is caught and passed); "nobox" (no selector matched);
\* "fault" (a call raised, caught by the outer except)
perform_search(how) == how \in {"ok", "timeout"}

\* if not await self.perform_search(): return {... 'Search failed' ...}
RunSearch(e, how) ==
    /\ pc[e] = "search"
    /\ Enter(e, "search")
    /\ IF perform_search(how)
       THEN /\ pc' = [pc EXCEPT ![e] = "inject"]
            /\ UNCHANGED pending
       ELSE ExceptHandler(e, "Search failed")
    /\ searched' = [searched EXCEPT ![e] = how]
    /\ UNCHANGED <<browser, driver, outcome>>
    /\ NotRun

\* await self.inject_highlighter(self.page); wait_for_timeout(500)
RunInject(e, fault) ==
    /\ pc[e] = "inject"
    /\ Enter(e, "inject")
    /\ IF fault
       THEN ExceptHandler(e, "inject failed")
       ELSE /\ pc' = [pc EXCEPT ![e] = "activate"]
            /\ UNCHANGED pending
    /\ UNCHANGED <<browser, driver, outcome>>
    /\ UNCHANGED searched
    /\ NotRun

\* await self.page.evaluate("window.activate..."); wait_for_timeout(1000)
RunActivate(e, fault) ==
    /\ pc[e] = "activate"
    /\ Enter(e, "activate")
    /\ IF fault
       THEN ExceptHandler(e, "activate failed")
       ELSE /\ pc' = [pc EXCEPT ![e] = "collect"]
            /\ UNCHANGED pending
    /\ UNCHANGED <<browser, driver, outcome>>
    /\ UNCHANGED searched
    /\ NotRun

\* the links a session can have collected: the link dictionaries of the
\* engine's page, as the poll reports them
RunLink(e, number, title, href) ==
    [number |-> number, title |-> <<title, e>>, url |-> href,
     domain |-> Hostname(href)]

RunLinkPool(e) ==
    IF e = "Google"
    THEN { RunLink(e, 1, "Alpha", HrefExample), RunLink(e, 2, "Delta", HrefOther) }
    ELSE { RunLink(e, 1, "Delta", HrefOther), RunLink(e, 3, "Gamma", HrefReel) }

\* what collect_links can return in a session: at most n links of the
\* engine's page, no URL twice
RunLinkLists(e, n) ==
    LET pool == RunLinkPool(e)
    IN  { <<>> } \cup
        { <<a>> : a \in { x \in pool : n >= 1 } } \cup
        { s \in { <<a, b>> : a \in pool, b \in pool } :
              n >= 2 /\ s[1].url # s[2].url }

\* links = await self.collect_links(); result = {...}: collect_links
\* catches the faults of its own calls
RunCollect(e, links) ==
    /\ pc[e] = "collect"
    /\ Enter(e, "collect")
    /\ pending' = [pending EXCEPT ![e] =
                       [kind |-> "return", result |-> SuccessResult(SourceName(e), links)]]
    /\ pc' = [pc EXCEPT ![e] = IF debug THEN "close" ELSE "linger"]
    /\ UNCHANGED <<browser, driver, outcome>>
    /\ UNCHANGED searched
    /\ NotRun

\* if not self.debug: await self.page.wait_for_timeout(2000); return result
RunLinger(e, fault) ==
    /\ pc[e] = "linger"
    /\ Enter(e, "linger")
    /\ IF fault
       THEN ExceptHandler(e, "wait failed")
       ELSE /\ pc' = [pc EXCEPT ![e] = "close"]
            /\ UNCHANGED pending
    /\ UNCHANGED <<browser, driver, outcome>>
    /\ UNCHANGED searched
    /\ NotRun

\* a finally block that releases the browser in debug mode as well
RunCloseAlways(e, fault) ==
    /\ pc[e] = "close"
    /\ IF browser[e] = "none"
       THEN /\ pc' = [pc EXCEPT ![e] = "stop"]
            /\ UNCHANGED <<browser, outcome, trace>>
       ELSE /\ Enter(e, "close")
            /\ IF fault
               THEN /\ Escape(e, "browser close failed")
                    /\ UNCHANGED browser
               ELSE /\ browser' = [browser EXCEPT ![e] = "closed"]
                    /\ pc' = [pc EXCEPT ![e] = "stop"]
                    /\ UNCHANGED outcome
    /\ UNCHANGED <<driver, pending>>
    /\ UNCHANGED searched
    /\ NotRun

\* finally: if not self.debug: if self.browser: await self.browser.close()
RunClose(e, fault) ==
    /\ pc[e] = "close"
    /\ IF debug
       THEN /\ Finish(e)
            /\ UNCHANGED <<browser, trace>>
       ELSE IF browser[e] = "none"
       THEN /\ pc' = [pc EXCEPT ![e] = "stop"]
            /\ UNCHANGED <<browser, outcome, trace>>
       ELSE /\ Enter(e, "close")
            /\ IF fault
               THEN /\ Escape(e, "browser close failed")
                    /\ UNCHANGED browser
               ELSE /\ browser' = [browser EXCEPT ![e] = "closed"]
                    /\ pc' = [pc EXCEPT ![e] = "stop"]
                    /\ UNCHANGED outcome
    /\ UNCHANGED <<driver, pending>>
    /\ UNCHANGED searched
    /\ NotRun

\* finally: await playwright.stop(), then run returns
RunStop(e, fault) ==
    /\ pc[e] = "stop"
    /\ Enter(e, "stop")
    /\ IF fault
       THEN /\ Escape(e, "driver stop failed")
            /\ UNCHANGED driver
       ELSE /\ driver' = [driver EXCEPT ![e] = "stopped"]
            /\ Finish(e)
    /\ UNCHANGED <<browser, pending>>
    /\ UNCHANGED searched
    /\ NotRun

\* the CancelledError a cancelled run carries through its finally block;
\* except Exception does not catch it
Cancelled == [kind |-> "raise", error |-> "cancelled"]

\* a user interrupt cancels the task of run while it is suspended in the
\* awaited call of its current stage.  landed: the call had taken effect
\* when the cancellation was delivered.  Before the try block and inside
\* the finally block the CancelledError leaves run at once; inside the try
\* block the finally block runs next.
RunCancel(e, landed) ==
    /\ pc[e] # "done"
    /\ pending[e] # Cancelled
    /\ pc[e] = "close" => (~debug /\ browser[e] # "none")
    /\ Enter(e, pc[e])
    /\ pending' = [pending EXCEPT ![e] = Cancelled]
    /\ IF pc[e] \in {"start", "close", "stop"}
       THEN Escape(e, "cancelled")
       ELSE /\ pc' = [pc EXCEPT ![e] = "close"]
            /\ UNCHANGED outcome
    /\ browser' = [browser EXCEPT ![e] =
                       IF pc[e] = "setup" /\ landed THEN "open"
                       ELSE IF pc[e] = "close" /\ landed THEN "closed"
                       ELSE @]
    /\ driver' = [driver EXCEPT ![e] =
                      IF pc[e] = "stop" /\ landed THEN "stopped" ELSE @]
    /\ UNCHANGED searched
    /\ NotRun

\* the activation when the scan it starts throws at node k: on a Bing page
\* isOrganicSearchResult throws for a heading that has an SVG element among
\* the four elements above it (className is no string there).  The script
\* catches nothing: the scan stops after the nodes before k, no observer or
\* listener is registered, page.evaluate raises, and the except handler of
\* run prepares the failure return; collect_links is never called.
SessionActivateThrows(k) ==
    /\ cpc = "activate"
    /\ engine = "Bing"
    /\ isHighlightingActive' = TRUE
    /\ SetTracker([ScanFrom(engine, Tracker, 1, attached \cap 1..(k - 1),
                            hiddenCss, scrollY) EXCEPT !.visible = {}])
    /\ UNCHANGED <<injected, listeners, scrollTimers, mutationTimers>>
    /\ cpc' = "returned"
    /\ pending' = [pending EXCEPT ![engine] =
                       [kind |-> "return",
                        result |-> FailedResult(SourceName(engine), "activate failed")]]
    /\ faults' = CountFault(faults)
    /\ UNCHANGED <<num_links, collected_links, collected_urls, scroll_attempts, polls>>
    /\ UNCHANGED pageVars
    /\ UNCHANGED <<debug, pc, browser, driver, outcome, trace, searched>>
    /\ UNCHANGED <<orchVars, classifyVars, peerVars>>

\* the rest of the try block of run after collect_links has returned on
\* the page session that is followed: result = {...}; the 2 s wait when
\* debug is off; return result.  fault: the wait raised, and the except
\* handler prepares the failure return instead
SessionResult(fault) ==
    /\ cpc = "done"
    /\ fault => ~debug
    /\ cpc' = "returned"
    /\ pending' = [pending EXCEPT ![engine] =
                       [kind |-> "return",
                        result |-> IF fault
                                   THEN FailedResult(SourceName(engine), "wait failed")
                                   ELSE SuccessResult(SourceName(engine), collected_links)]]
    /\ faults' = IF fault THEN CountFault(faults) ELSE faults
    /\ UNCHANGED <<num_links, collected_links, collected_urls, scroll_attempts, polls>>
    /\ UNCHANGED pageVars
    /\ UNCHANGED trackerVars
    /\ UNCHANGED <<debug, pc, browser, driver, outcome, trace, searched>>
    /\ UNCHANGED <<orchVars, classifyVars, peerVars>>

(***************************************************************************)
(* run_scrapers (src/scraper/scraper.py and src/main.py) and the two       *)
(* format_results.                                                         *)
(***************************************************************************)
\* the order of the awaitables given to asyncio.gather
EngineOrder == <<"Google", "Bing">>

\* a gather that resumes at the first raised fault (return_exceptions off)
GatherFirstException ==
    \/ \A e \in Engines : outcome[e].kind # "running"
    \/ \E e \in Engines : outcome[e].kind = "raise"

\* await asyncio.gather(..., return_exceptions=True) resumes: every
\* awaitable has returned or raised
GatherReady == \A e \in Engines : outcome[e].kind # "running"

\* a loop body that names every raised session after the first scraper
ProcessResultFirstSource(i, out) ==
    IF out.kind = "raise"
    THEN FailedResult(EngineOrder[1], out.error)
    ELSE IF out.kind = "return" THEN out.result
    ELSE out

\* the loop body of  for i, result in enumerate(results)
ProcessResult(i, out) ==
    IF out.kind = "raise"
    THEN FailedResult(EngineOrder[i], out.error)
    ELSE IF out.kind = "return" THEN out.result
    ELSE out

\* if len(processed_results) < 2: add the missing sources
EnsureBoth(processed) ==
    IF Len(processed) < 2
    THEN LET have == { processed[i].source : i \in DOMAIN processed }
             missing == SelectSeq(EngineOrder, LAMBDA src : src \notin have)
         IN  processed \o
             [i \in DOMAIN missing |->
                  FailedResult(missing[i], "Scraper failed to start")]
    ELSE processed

\* the value run_scrapers returns for the outcomes outs of the two runs
processed_results(outs) ==
    EnsureBoth([i \in DOMAIN EngineOrder |-> ProcessResult(i, outs[EngineOrder[i]])])

RunScrapersReturn ==
    /\ opc = "gather"
    /\ GatherReady
    /\ results' = processed_results(outcome)
    /\ opc' = "returned"
    /\ UNCHANGED <<entry, output_mode, shown, removed_duplicates>>
    /\ UNCHANGED sessionVars
    /\ UNCHANGED classifyVars
    /\ UNCHANGED peerVars
    /\ UNCHANGED pageVars
    /\ UNCHANGED trackerVars
    /\ UNCHANGED collectVars

\* the loop  for result in results  of format_results, for one source:
\* the links of the last result of that source, or [] when it failed
RECURSIVE SourceLinks(_, _, _, _)
SourceLinks(rs, source, i, acc) ==
    IF i > Len(rs) THEN acc
    ELSE IF rs[i].source = source
    THEN SourceLinks(rs, source, i + 1,
                     IF rs[i].status = "success" THEN rs[i].links ELSE <<>>)
    ELSE SourceLinks(rs, source, i + 1, acc)

UrlsOf(links) == { links[i].url : i \in DOMAIN links }

\* a filter on whole link dictionaries:  if link not in google_links
DropGoogleLinks(bing_links, google_links) ==
    SelectSeq(bing_links,
              LAMBDA link : \A i \in DOMAIN google_links : google_links[i] # link)

\* [link for link in bing_links if link['url'] not in google_urls]
DropGoogleUrls(bing_links, google_links) ==
    SelectSeq(bing_links, LAMBDA link : link.url \notin UrlsOf(google_links))

\* format_results of src/scraper/scraper.py, both output modes
FormatResultsScraper ==
    /\ opc = "returned"
    /\ entry = "scraper"
    /\ LET google_links == SourceLinks(results, "Google", 1, <<>>)
           bing_links == SourceLinks(results, "Bing", 1, <<>>)
           kept == DropGoogleUrls(bing_links, google_links)
       IN  /\ shown' = [google |-> google_links, bing |-> kept]
           /\ removed_duplicates' =
                  IF output_mode = "terminal"
                  THEN Len(bing_links) - Len(kept)
                  ELSE removed_duplicates
    /\ opc' = "formatted"
    /\ UNCHANGED <<results, entry, output_mode>>
    /\ UNCHANGED sessionVars
    /\ UNCHANGED classifyVars
    /\ UNCHANGED peerVars
    /\ UNCHANGED pageVars
    /\ UNCHANGED trackerVars
    /\ UNCHANGED collectVars

\* format_results of src/main.py
FormatResultsMain ==
    /\ opc = "returned"
    /\ entry = "main"
    /\ shown' = [google |-> SourceLinks(results, "Google", 1, <<>>),
                 bing |-> SourceLinks(results, "Bing", 1, <<>>)]
    /\ opc' = "formatted"
    /\ UNCHANGED <<results, entry, output_mode, removed_duplicates>>
    /\ UNCHANGED sessionVars
    /\ UNCHANGED classifyVars
    /\ UNCHANGED peerVars
    /\ UNCHANGED pageVars
    /\ UNCHANGED trackerVars
    /\ UNCHANGED collectVars

(***************************************************************************)
(* The page session: one engine's page, script and collector.              *)
(***************************************************************************)
vars == <<pageVars, trackerVars, collectVars, runVars>>

InitAttached == Nodes \ {3, 9}

InitPage ==
    /\ attached = InitAttached
    /\ hiddenCss = {}
    /\ scrollY = 0
    /\ events = 0
    /\ injected = FALSE
    /\ isHighlightingActive = FALSE
    /\ globalLinkCounter = 0
    /\ processedLinks = <<>>
    /\ activeHighlights = EmptyMap
    /\ listeners = 0
    /\ scrollTimers = 0
    /\ mutationTimers = 0
    /\ cpc = "inject"
    /\ collected_links = <<>>
    /\ collected_urls = {}
    /\ scroll_attempts = 0
    /\ polls = 0
    /\ faults = 0
    /\ peer = NewSession(OtherEngine(engine))

\* BaseScraper.__init__ for both scrapers, and the state before run_scrapers
InitRun ==
    /\ debug \in BOOLEAN
    /\ pc = [e \in Engines |-> "start"]
    /\ browser = [e \in Engines |-> "none"]
    /\ driver = [e \in Engines |-> "none"]
    /\ pending = [e \in Engines |-> [kind |-> "none"]]
    /\ outcome = [e \in Engines |-> [kind |-> "running"]]
    /\ trace = [e \in Engines |-> <<>>]
    /\ searched = [e \in Engines |-> "none"]
    /\ opc = "gather"
    /\ results = <<>>
    /\ shown = [google |-> <<>>, bing |-> <<>>]
    /\ removed_duplicates = None

\* no call of the classifier is followed
NoClassify ==
    /\ h2 = PlainHeading
    /\ verdict = "none"

\* the target counts of the page sessions followed
TargetCounts == 0..MaxNumLinks \cup {LargeNumLinks}

\* the page session of one engine; the sessions of run_scrapers stand still
Init ==
    /\ engine \in Engines
    /\ num_links \in TargetCounts
    /\ InitPage
    /\ InitRun
    /\ NoClassify
    /\ debug = FALSE
    /\ entry = "scraper"
    /\ output_mode = "terminal"

EnvNext ==
    \/ \E n \in MutableNodes : MutateNode(n)
    \/ \E a, b \in MutableNodes : ReplaceNode(a, b)
    \/ \E n \in StyledNodes : RestyleNode(n)
    \/ \E dy \in {ScrollStep, 0 - ScrollStep} : UserScroll(dy)
    \/ Resize
    \/ ReInject
    \/ ReActivate
    \/ ClearHighlights

\* the page and its script, up to the activation by BaseScraper.run
PageNext ==
    \/ EnvNext
    \/ FireScrollTimer
    \/ FireMutationTimer
    \/ SessionInject
    \/ SessionActivate

Next == PageNext

Spec == Init /\ [][Next]_vars

\* the driver may still make an awaited call raise
FaultsLeft == faults < MaxFaults

\* the collector loop on the page, with fewer events of the environment
CollectEnvStep == events < MaxCollectEvents /\ EnvNext
CollectPollStep == \E fault \in BOOLEAN : (fault => FaultsLeft) /\ CollectPoll(fault)
CollectScrollFaultStep == FaultsLeft /\ CollectScrollFault
CollectWaitFaultStep == FaultsLeft /\ CollectWaitFault
CollectBottomStep == \E fault \in BOOLEAN : (fault => FaultsLeft) /\ CollectBottom(fault)
SessionResultStep == \E fault \in BOOLEAN : (fault => FaultsLeft) /\ SessionResult(fault)
SessionActivateThrowsStep == \E k \in Nodes : FaultsLeft /\ SessionActivateThrows(k)

CollectNext ==
    \/ CollectEnvStep
    \/ FireScrollTimer
    \/ FireMutationTimer
    \/ SessionInject
    \/ SessionActivate
    \/ SessionActivateThrowsStep
    \/ CollectPollStep
    \/ CollectScroll
    \/ CollectScrollFaultStep
    \/ CollectWait
    \/ CollectWaitFaultStep
    \/ CollectBottomStep
    \/ SessionResultStep

NextCollect == CollectNext

SpecCollect == Init /\ [][NextCollect]_vars

\* a step of collect_links or of the two calls before it: each awaited call
\* returns or raises
CollectStep ==
    \/ SessionInject
    \/ SessionActivate
    \/ \E fault \in BOOLEAN : CollectPoll(fault)
    \/ CollectScroll
    \/ CollectScrollFault
    \/ CollectWait
    \/ CollectWaitFault
    \/ \E fault \in BOOLEAN : CollectBottom(fault)

\* the collector loop alone on a page that only its own scrolling changes
NextCollectFair ==
    \/ CollectStep
    \/ FireScrollTimer

\* every awaited call ends (it returns or raises) and the timers the scroll
\* listeners set fire
SpecCollectFair ==
    /\ Init
    /\ [][NextCollectFair]_vars
    /\ WF_vars(CollectStep)
    /\ WF_vars(FireScrollTimer)

\* the two sessions of run_scrapers side by side, each on its page as
\* loaded: the steps of collect_links of one, and the steps of the other
NextPair ==
    \/ SessionInject
    \/ SessionActivate
    \/ CollectPoll(FALSE)
    \/ CollectScroll
    \/ FireScrollTimer
    \/ CollectWait
    \/ CollectBottom(FALSE)
    \/ PeerStep

SpecPair == Init /\ [][NextPair]_vars

(***************************************************************************)
(* One call of isOrganicSearchResult on a heading of a Bing page.          *)
(***************************************************************************)
\* the class markers of the elements of a chain
Markers == {"plain", "b_algo", "b_ad"}

RECURSIVE Chains(_)
Chains(n) ==
    IF n = 0 THEN { <<>> }
    ELSE LET shorter == Chains(n - 1)
         IN  shorter \cup
             { Append(c, m) : c \in { d \in shorter : Len(d) = n - 1 }, m \in Markers }

\* h2.closest('.b_algo, ...'): the heading or an element above it, at any
\* distance, is an organic container
ClosestOrganic(chain) == \E i \in DOMAIN chain : chain[i] = "b_algo"

\* the headings the classifier is called on
Headings ==
    { [PlainHeading EXCEPT !.chain = c,
                           !.organicContainer = ClosestOrganic(c),
                           !.resultItemIndicators = r,
                           !.keyword = k,
                           !.href = href,
                           !.childAnchor = (href # NoHref),
                           !.longText = long] :
          c \in Chains(MaxChainLen) \ { <<>> }, r \in BOOLEAN, k \in BOOLEAN,
          href \in {HrefOther, HrefBing, NoHref}, long \in BOOLEAN }

InitClassify ==
    /\ engine = "Bing"
    /\ num_links = 1
    /\ InitPage
    /\ InitRun
    /\ debug = FALSE
    /\ entry = "scraper"
    /\ output_mode = "terminal"
    /\ h2 \in Headings
    /\ verdict = "none"

\* if (h2HasLink(h2) && isOrganicSearchResult(h2)) of processH2Elements,
\* for one heading
Classify ==
    /\ verdict = "none"
    /\ verdict' = IF isOrganicSearchResult(h2) THEN "organic" ELSE "non-organic"
    /\ UNCHANGED h2
    /\ UNCHANGED <<sessionVars, orchVars, peerVars>>
    /\ UNCHANGED pageVars
    /\ UNCHANGED trackerVars
    /\ UNCHANGED collectVars

NextClassify == Classify

SpecClassify == InitClassify /\ [][NextClassify]_vars

(***************************************************************************)
(* The run of both sessions: run_search / main.                            *)
(***************************************************************************)
InitRunSearch ==
    /\ engine = "Google"
    /\ num_links \in 1..MaxNumLinks
    /\ InitPage
    /\ InitRun
    /\ NoClassify
    /\ entry \in {"scraper", "main"}
    /\ output_mode \in {"terminal", "json"}
    /\ (entry = "main" => output_mode = "terminal")

NextRun ==
    \/ \E e \in Engines, fault \in BOOLEAN : RunStart(e, fault)
    \/ \E e \in Engines, how \in {"ok", "launch", "page"} : RunSetup(e, how)
    \/ \E e \in Engines, fault \in BOOLEAN : RunGoto(e, fault)
    \/ \E e \in Engines : RunCookies(e)
    \/ \E e \in Engines, how \in {"ok", "timeout", "nobox", "fault"} : RunSearch(e, how)
    \/ \E e \in Engines, fault \in BOOLEAN : RunInject(e, fault)
    \/ \E e \in Engines, fault \in BOOLEAN : RunActivate(e, fault)
    \/ \E e \in Engines : \E links \in RunLinkLists(e, num_links) : RunCollect(e, links)
    \/ \E e \in Engines, fault \in BOOLEAN : RunLinger(e, fault)
    \/ \E e \in Engines, fault \in BOOLEAN : RunClose(e, fault)
    \/ \E e \in Engines, fault \in BOOLEAN : RunStop(e, fault)
    \/ RunScrapersReturn
    \/ FormatResultsScraper
    \/ FormatResultsMain

SpecRun == InitRunSearch /\ [][NextRun]_vars

\* the two sessions while a user interrupt may cancel them
NextInterrupt ==
    \/ \E e \in Engines, fault \in BOOLEAN : RunStart(e, fault)
    \/ \E e \in Engines, how \in {"ok", "launch", "page"} : RunSetup(e, how)
    \/ \E e \in Engines, fault \in BOOLEAN : RunGoto(e, fault)
    \/ \E e \in Engines : RunCookies(e)
    \/ \E e \in Engines, how \in {"ok", "timeout", "nobox", "fault"} : RunSearch(e, how)
    \/ \E e \in Engines, fault \in BOOLEAN : RunInject(e, fault)
    \/ \E e \in Engines, fault \in BOOLEAN : RunActivate(e, fault)
    \/ \E e \in Engines : \E links \in RunLinkLists(e, num_links) : RunCollect(e, links)
    \/ \E e \in Engines, fault \in BOOLEAN : RunLinger(e, fault)
    \/ \E e \in Engines, fault \in BOOLEAN : RunClose(e, fault)
    \/ \E e \in Engines, fault \in BOOLEAN : RunStop(e, fault)
    \/ \E e \in Engines, landed \in BOOLEAN : RunCancel(e, landed)

SpecInterrupt == InitRunSearch /\ [][NextInterrupt]_vars

(***************************************************************************)
(* Properties of the tracker (checked under Spec).                         *)
(***************************************************************************)
\* the element id of node n on this page
IdOf(n) == getElementId(engine, Heading[n])

\* the number the tracker holds for id
NumberOf(processed, id) == ProcessedGet(processed, id).number

\* the numbers the poll reports for id
ReportedNumbers(active, att, id) ==
    IF PollThrows(active, att) THEN {}
    ELSE { active[x].number : x \in LiveEntries(active, att) \cap {id} }

\* C1: a number, once assigned to an element id, never changes: in every
\* step every tracked id stays tracked with the number it had, and the
\* highlight and the poll after the step carry that number.
C1_NumberNeverChanges ==
    [][ \A i \in DOMAIN processedLinks :
          LET id == processedLinks[i].id
              number == processedLinks[i].number
          IN  /\ ProcessedHas(processedLinks', id)
              /\ NumberOf(processedLinks', id) = number
              /\ id \in DOMAIN activeHighlights' =>
                     activeHighlights'[id].number = number
              /\ ReportedNumbers(activeHighlights', attached', id) \subseteq {number}
      ]_vars

\* C1 witness: the id of node 1 was first seen on node 1, its highlight was
\* dropped and made again on the replacing node 3, with the number it had,
\* after other ids were numbered too
C1_Witness ==
    /\ ProcessedHas(processedLinks, IdOf(1))
    /\ ProcessedGet(processedLinks, IdOf(1)).element = 1
    /\ IdOf(1) \in DOMAIN activeHighlights
    /\ activeHighlights[IdOf(1)].element = 3
    /\ activeHighlights[IdOf(1)].number = 1
    /\ globalLinkCounter >= 3

\* C2: the numbers issued are 1, 2, ..., n in the order of discovery (the
\* insertion order of processedLinks), no id is numbered twice, and the
\* counter is the number of tracked ids.
C2_NumbersAreOneToN ==
    /\ globalLinkCounter = Len(processedLinks)
    /\ \A i \in DOMAIN processedLinks : processedLinks[i].number = i
    /\ \A i, j \in DOMAIN processedLinks :
           i # j => processedLinks[i].id # processedLinks[j].id
    /\ Cardinality({ processedLinks[i].id : i \in DOMAIN processedLinks })
           = globalLinkCounter

\* C2 witness: ids discovered in several scans, the later ones after the
\* page was scrolled and changed
C2_Witness ==
    /\ Len(processedLinks) >= 5
    /\ events >= 2
    /\ scrollY > 0

(***************************************************************************)
(* Properties of collect_links (checked under SpecCollect).                *)
(***************************************************************************)
\* C3: at every step of collect_links, and so in what it returns, there
\* are at most num_links collected links.
C3_AtMostNumLinks == Len(collected_links) <= num_links

\* C3 witness: the loop has ended with the list full although the last
\* poll held more links than were asked for
C3_Witness ==
    /\ cpc = "done"
    /\ num_links >= 1
    /\ Len(collected_links) = num_links
    /\ ~PollThrows(activeHighlights, attached)
    /\ Len(getHighlightedLinksInfo(activeHighlights, attached)) > num_links + 1

\* the excluded-domain patterns of engine e, as the scrapers list them
ExcludedPatterns(e) == OwnDomains(e) \cup BaseExcludedDomains

LinksOfSource(source) ==
    LET hits == SelectSeq(results, LAMBDA r : r.source = source)
    IN  IF Len(hits) = 0 \/ hits[Len(hits)].status # "success"
        THEN <<>>
        ELSE hits[Len(hits)].links

\* the positions at which a list of links holds url
PositionsOf(links, url) == { i \in DOMAIN links : links[i].url = url }

\* C5: in the merged output of either entry point and either output mode
\* no URL appears twice: a URL both engines collected is shown in Google's
\* list only.
C5_NoUrlTwice ==
    opc = "formatted" =>
        LET merged == shown.google \o shown.bing
        IN  \A url \in UrlsOf(merged) : Cardinality(PositionsOf(merged, url)) = 1

\* C6: format_results of src/scraper/scraper.py shows Google's links as
\* they are, shows of Bing's links exactly those whose URL is not among
\* Google's successful links, in their order, and in terminal mode counts
\* as removed duplicates the Bing links it dropped, which is the number of
\* URLs both lists hold; when Google failed it drops none.
C6_MergeDropsOverlap ==
    (opc = "formatted" /\ entry = "scraper") =>
        LET google_links == LinksOfSource("Google")
            bing_links == LinksOfSource("Bing")
            overlap == UrlsOf(google_links) \cap UrlsOf(bing_links)
            kept == { i \in DOMAIN bing_links : bing_links[i].url \notin overlap }
        IN  /\ shown.google = google_links
            /\ Len(shown.bing) = Cardinality(kept)
            /\ \A k \in DOMAIN shown.bing :
                   \E i \in kept :
                       /\ shown.bing[k] = bing_links[i]
                       /\ Cardinality({ j \in kept : j < i }) = k - 1
            /\ output_mode = "terminal" =>
                   /\ removed_duplicates = Len(bing_links) - Len(shown.bing)
                   /\ removed_duplicates = Cardinality(overlap)
            /\ results[1].status = "failed" => shown.bing = bing_links

\* C6 witness: both sessions succeeded with two links each, one URL in
\* both; the terminal output of scraper.py shows one Bing link and counts
\* one removed duplicate
C6_Witness ==
    /\ opc = "formatted"
    /\ entry = "scraper"
    /\ output_mode = "terminal"
    /\ Len(LinksOfSource("Google")) = 2
    /\ Len(LinksOfSource("Bing")) = 2
    /\ removed_duplicates = 1
    /\ Len(shown.bing) = 1

\* C7: whatever the two sessions did, run_scrapers returns two results,
\* Google's first and Bing's second; a session that returned is passed on
\* as it is, a session that raised is replaced by a failed result of its
\* own engine with no links and the fault's text.
C7_TwoResultsInOrder ==
    opc # "gather" =>
        /\ Len(results) = 2
        /\ results[1].source = "Google"
        /\ results[2].source = "Bing"
        /\ \A i \in 1..2 :
               LET out == outcome[EngineOrder[i]]
               IN  /\ out.kind = "return" => results[i] = out.result
                   /\ out.kind = "raise" =>
                          /\ results[i].status = "failed"
                          /\ results[i].links = <<>>
                          /\ results[i].error = out.error

\* C7 witness: run_scrapers has returned; Bing's session raised and
\* Google's returned a success with links
C7_Witness ==
    /\ opc = "returned"
    /\ outcome["Bing"].kind = "raise"
    /\ outcome["Google"].kind = "return"
    /\ outcome["Google"].result.status = "success"
    /\ Len(outcome["Google"].result.links) >= 1
    /\ results[2].error = "driver stop failed"

\* the stages of a run that nothing interrupts
FullTrace ==
    IF debug
    THEN <<"start", "setup", "goto", "cookies", "search", "inject", "activate",
           "collect">>
    ELSE <<"start", "setup", "goto", "cookies", "search", "inject", "activate",
           "collect", "linger", "close", "stop">>

\* what belongs to the session of engine e
SessionOf(e) ==
    <<pc[e], browser[e], driver[e], pending[e], outcome[e], trace[e], searched[e]>>

\* C8: run_scrapers returns only when both sessions have ended, a step of
\* one session leaves the other session as it was, and a session that
\* returned a success went through every stage whatever the other did.
C8_WaitsForBoth ==
    /\ [](opc # "gather" =>
              \A e \in Engines : pc[e] = "done" /\ outcome[e].kind # "running")
    /\ [](\A e \in Engines :
              (outcome[e].kind = "return" /\ outcome[e].result.status = "success")
                  => trace[e] = FullTrace)
    /\ [][ \A e \in Engines :
               SessionOf(e)' # SessionOf(e) =>
                   \A o \in Engines \ {e} : SessionOf(o)' = SessionOf(o) ]_vars

\* C8 witness: run_scrapers has returned after Google's session raised at
\* its first stage and Bing's went through every stage to a success
C8_Witness ==
    /\ opc = "returned"
    /\ outcome["Google"].kind = "raise"
    /\ trace["Google"] = <<"start">>
    /\ outcome["Bing"].kind = "return"
    /\ outcome["Bing"].result.status = "success"
    /\ trace["Bing"] = FullTrace

\* C9: run never raises: every run that has ended has returned a result,
\* and a run in which a fault was raised returned a failed one.
C9_RunNeverRaises ==
    \A e \in Engines :
        pc[e] = "done" =>
            /\ outcome[e].kind = "return"
            /\ outcome[e].result.source = SourceName(e)
            /\ outcome[e].result.status \in {"success", "failed"}

\* the navigation of engine e raised
NavigationFailed(e) ==
    /\ pending[e].kind = "return"
    /\ pending[e].result.error = "navigation failed"

\* C10: a run whose navigation failed ends with a failed result that has
\* no links and the navigation error's text, without entering consent,
\* search, injection, activation or collection; the other session goes on
\* and run_scrapers returns two results, this one among them.
C10_NavigationFailure ==
    \A e \in Engines :
        (NavigationFailed(e) /\ pc[e] = "done") =>
            /\ outcome[e] = [kind |-> "return",
                             result |-> FailedResult(SourceName(e), "navigation failed")]
            /\ \A k \in DOMAIN trace[e] :
                   trace[e][k] \notin {"cookies", "search", "inject", "activate",
                                       "collect", "linger"}
            /\ opc # "gather" =>
                   /\ Len(results) = 2
                   /\ \E i \in 1..2 :
                          results[i] = FailedResult(SourceName(e), "navigation failed")

(***************************************************************************)
(* Further properties of collect_links (checked under SpecCollect).        *)
(***************************************************************************)
\* the links of the page that qualify for engine e: candidates of the
\* script with a URL that parses and a domain that is not excluded
QualifyingUrls(e) ==
    { Heading[n].href : n \in { m \in InitAttached :
          /\ IsCandidate(e, m)
          /\ UrlParses(Heading[m].href)
          /\ ~IsExcluded(e, LinkInfo([element |-> m, number |-> 0])) } }

\* collect_links has returned from a page that nothing changed, without a
\* fault of any awaited call
QuietReturn == cpc = "done" /\ events = 0 /\ faults = 0

\* C15: on a page that holds fewer qualifying links than the target, the
\* collector loop, once it has detected the bottom, returns every
\* qualifying link of the page, wherever it lies.
C15_ReturnsAllQualifying ==
    (QuietReturn /\ num_links > Cardinality(QualifyingUrls(engine))) =>
        /\ AtBottom
        /\ UrlsOf(collected_links) = QualifyingUrls(engine)

\* C16: the links collect_links holds are in strictly ascending order of
\* their assigned numbers.
C16_AscendingNumbers ==
    \A i, j \in DOMAIN collected_links :
        i < j => collected_links[i].number < collected_links[j].number

\* C17: no two collected links have the same URL, and collected_urls is
\* the set of the URLs of collected_links, at every step.
C17_NoUrlTwiceInCollection ==
    /\ \A i, j \in DOMAIN collected_links :
           i # j => collected_links[i].url # collected_links[j].url
    /\ collected_urls = UrlsOf(collected_links)

\* C17 witness: the script holds one URL under two assigned numbers, both
\* active, after two polls or more, and the collection holds that URL once
C17_Witness ==
    /\ polls >= 2
    /\ Len(collected_links) >= 2
    /\ ~PollThrows(activeHighlights, attached)
    /\ \E a, b \in DOMAIN getHighlightedLinksInfo(activeHighlights, attached) :
           LET current_links == getHighlightedLinksInfo(activeHighlights, attached)
           IN  /\ current_links[a].number # current_links[b].number
               /\ current_links[a].url = current_links[b].url
               /\ current_links[a].url \in collected_urls

\* C18: the collector loop scrolls at most 20 times and polls at most 20
\* times, and it always returns.
C18_LoopTerminates ==
    /\ [](scroll_attempts <= 20 /\ polls <= 20 /\ polls <= scroll_attempts + 1)
    /\ <>(cpc = "done")

\* C18 witness: the loop has returned after 20 scrolls and 20 polls with
\* fewer links than asked for
C18_Witness ==
    /\ cpc = "done"
    /\ scroll_attempts = 20
    /\ polls = 20
    /\ Len(collected_links) < num_links

(***************************************************************************)
(* Further properties of BaseScraper.run (checked under SpecRun).          *)
(***************************************************************************)
\* the entry of engine e in what run_scrapers returned
ResultOf(e) == results[CHOOSE i \in DOMAIN EngineOrder : EngineOrder[i] = e]

\* the stages after the search
LaterStages == {"inject", "activate", "collect", "linger"}

\* run has entered none of the stages after the search
NoLaterStage(e) == \A k \in DOMAIN trace[e] : trace[e][k] \notin LaterStages

\* C11: when no search-box selector matches, the highlighter is never
\* injected or activated and collect_links never runs; run, when it
\* returns, returns the failed result 'Search failed' with no links, and
\* the engine's entry in what run_scrapers returns is failed with no links.
C11_NoSearchBox ==
    \A e \in Engines :
        searched[e] = "nobox" =>
            /\ NoLaterStage(e)
            /\ pending[e] = [kind |-> "return",
                             result |-> FailedResult(SourceName(e), "Search failed")]
            /\ outcome[e].kind = "return" => outcome[e] = pending[e]
            /\ opc # "gather" =>
                   /\ ResultOf(e).source = SourceName(e)
                   /\ ResultOf(e).status = "failed"
                   /\ ResultOf(e).links = <<>>

\* C11 witness: Bing found no search box and its run has returned the
\* failed result, while Google's run returned a success
C11_Witness ==
    /\ opc = "returned"
    /\ searched["Bing"] = "nobox"
    /\ outcome["Bing"].kind = "return"
    /\ trace["Bing"] = <<"start", "setup", "goto", "cookies", "search", "close", "stop">>
    /\ ResultOf("Google").status = "success"

\* C12: when the result container does not appear within the wait after
\* the query was submitted, run ends with a failed result and enters
\* neither the injection nor the collection.
C12_ResultsTimeoutFails ==
    \A e \in Engines :
        (searched[e] = "timeout" /\ pc[e] = "done") =>
            /\ NoLaterStage(e)
            /\ outcome[e].kind = "return" => outcome[e].result.status = "failed"

\* C13: with debug off, when run has finished the browser is closed (or
\* was never launched) and the driver is stopped (or was never started).
C13_ResourcesReleased ==
    \A e \in Engines :
        (pc[e] = "done" /\ ~debug) =>
            /\ browser[e] \in {"none", "closed"}
            /\ driver[e] \in {"none", "stopped"}

\* the texts of the faults a stage of run can raise inside the try block
StageFaults ==
    {"browser launch failed", "new page failed", "navigation failed",
     "inject failed", "activate failed", "wait failed"}

\* C14: a run that returns reports success with error None exactly when
\* the search went through and no stage raised, with whatever links were
\* collected (none, or fewer than the target); it reports failed, with no
\* links, only when the search did not go through or a stage raised.
C14_PartialIsSuccess ==
    \A e \in Engines :
        (pc[e] = "done" /\ outcome[e].kind = "return") =>
            LET r == outcome[e].result
            IN  IF perform_search(searched[e]) /\ r.error \notin StageFaults
                THEN /\ r.status = "success"
                     /\ r.error = None
                     /\ Len(r.links) <= num_links
                     /\ trace[e] = FullTrace
                ELSE /\ r.status = "failed"
                     /\ r.links = <<>>
                     /\ r.error \in StageFaults \cup {"Search failed"}

\* C14 witness: a run has returned success with no link at all although
\* links were asked for, and the other run returned success with fewer
\* links than the target
C14_Witness ==
    /\ num_links = 2
    /\ \A e \in Engines : pc[e] = "done" /\ outcome[e].kind = "return"
    /\ outcome["Google"].result.status = "success"
    /\ outcome["Google"].result.links = <<>>
    /\ outcome["Bing"].result.status = "success"
    /\ Len(outcome["Bing"].result.links) = 1

(***************************************************************************)
(* Properties of isOrganicSearchResult (checked under SpecClassify).       *)
(***************************************************************************)
\* C19: a heading whose ancestor two levels up has a class containing
\* 'b_ad' is classified non-organic, whatever else surrounds it.
C19_AdTwoLevelsUp ==
    (verdict # "none" /\ Len(h2.chain) >= 3 /\ h2.chain[3] = "b_ad") =>
        verdict = "non-organic"

\* C20: a heading inside an element with class 'b_algo' is classified
\* organic, whatever its text, the classes of its other ancestors and its
\* link target.
C20_OrganicContainerFirst ==
    (verdict # "none" /\ \E i \in 2..Len(h2.chain) : h2.chain[i] = "b_algo") =>
        verdict = "organic"

\* C20 witness: classified organic inside a 'b_algo' element although the
\* text holds a sponsored keyword, the parent is a 'b_ad' element and the
\* link goes to bing.com
C20_Witness ==
    /\ verdict = "organic"
    /\ Len(h2.chain) >= 3
    /\ h2.chain[2] = "b_ad"
    /\ h2.chain[3] = "b_algo"
    /\ h2.keyword
    /\ h2.href = HrefBing
    /\ ~h2.resultItemIndicators

(***************************************************************************)
(* Properties of the order of the stages of run (checked under SpecRun).   *)
(***************************************************************************)
\* the stages of run in the order of its text
StageOrder ==
    <<"start", "setup", "goto", "cookies", "search", "inject", "activate",
      "collect", "linger", "close", "stop">>

\* the position of a stage in StageOrder
StageRank(stage) == CHOOSE k \in DOMAIN StageOrder : StageOrder[k] = stage

\* the stages run of engine e has entered come in the order of the text,
\* none twice, and a stage up to the collection is entered only after every
\* stage before it
EnteredInOrder(e) ==
    /\ \A i, j \in DOMAIN trace[e] :
           i < j => StageRank(trace[e][i]) < StageRank(trace[e][j])
    /\ \A i \in DOMAIN trace[e] :
           StageRank(trace[e][i]) <= StageRank("linger") =>
               StageRank(trace[e][i]) = i

\* C22: within one session the stages are entered strictly in the order
\* navigate, consent, search, injection, activation, collection, outcome,
\* and the collection is entered only after a search that succeeded (the
\* results appeared) and after the activation.
C22_StagesInOrder ==
    \A e \in Engines :
        /\ EnteredInOrder(e)
        /\ \A i \in DOMAIN trace[e] :
               trace[e][i] = "collect" =>
                   /\ searched[e] = "ok"
                   /\ \E j \in 1..(i - 1) : trace[e][j] = "activate"
        /\ outcome[e].kind = "return" /\ outcome[e].result.status = "success" =>
               \E i \in DOMAIN trace[e] : trace[e][i] = "collect"

(***************************************************************************)
(* Properties of the two sessions side by side (checked under SpecPair).   *)
(***************************************************************************)
\* a session of engine e run alone from its construction to the end of
\* collect_links
RECURSIVE RunAlone(_, _)
RunAlone(p, n) ==
    IF p.cpc = "done" THEN p
    ELSE LET advanced == { Advance(q, n) : q \in {p} }
         IN  RunAlone(CHOOSE r \in advanced : TRUE, n)

\* what the first session holds on its page and in its collector
OwnState == <<pageVars, trackerVars, collectVars>>

\* C23: the two sessions share no mutable state: a step of one leaves the
\* page, the counter, the tracked records, the active set and the
\* collected list of the other as they were, and in every interleaving
\* each session ends with the numbering and the collected list it ends
\* with when it runs alone.
C23_NoSharedState ==
    /\ [][ /\ peer' # peer => OwnState' = OwnState
          /\ OwnState' # OwnState => peer' = peer ]_vars
    /\ [](cpc = "done" =>
             LET alone == RunAlone(NewSession(engine), num_links)
             IN  /\ collected_links = alone.links
                 /\ processedLinks = alone.tracker.processed
                 /\ globalLinkCounter = alone.tracker.counter)
    /\ [](peer.cpc = "done" =>
             peer = RunAlone(NewSession(OtherEngine(engine)), num_links))

\* C23 witness: both sessions have ended after scrolling, each with links
\* numbered by its own counter, and the two counters differ
C23_Witness ==
    /\ cpc = "done"
    /\ peer.cpc = "done"
    /\ scroll_attempts >= 1
    /\ peer.attempts >= 1
    /\ Len(collected_links) >= 2
    /\ Len(peer.links) >= 2
    /\ globalLinkCounter # peer.tracker.counter

(***************************************************************************)
(* Properties of an interrupted run (checked under SpecInterrupt).         *)
(***************************************************************************)
\* C24: with debug off, a session that an interrupt cancelled while it was
\* suspended in run ends with its browser closed (or never launched) and
\* its driver stopped (or never started).
C24_ReleaseOnInterrupt ==
    \A e \in Engines :
        (pc[e] = "done" /\ ~debug /\ pending[e] = Cancelled) =>
            /\ browser[e] \in {"none", "closed"}
            /\ driver[e] \in {"none", "stopped"}

(***************************************************************************)
(* Properties of the faults inside collect_links (checked under            *)
(* SpecCollect).                                                           *)
(***************************************************************************)
\* the step is a poll whose evaluation raised
PollRaised ==
    /\ polls' = polls + 1
    /\ faults' > faults \/ PollThrows(activeHighlights, attached)

\* the links a poll of the page as it is would add to the collection
Collectable ==
    IF PollThrows(activeHighlights, attached) THEN {}
    ELSE LET current_links == getHighlightedLinksInfo(activeHighlights, attached)
         IN  { current_links[i].url : i \in { j \in DOMAIN current_links :
                   /\ current_links[j].url \notin collected_urls
                   /\ ~IsExcluded(engine, current_links[j]) } }

\* C25: a poll whose evaluation raised is an empty poll: the collected
\* links and URLs stay as they were, and the loop neither ends nor fails
\* but goes on with the scroll of the same iteration.
C25_PollFaultIsEmptyPoll ==
    [][ PollRaised =>
            /\ collected_links' = collected_links
            /\ collected_urls' = collected_urls
            /\ scroll_attempts' = scroll_attempts
            /\ cpc' = "scroll" ]_vars

\* C25 witness: on a page that nothing changed, the second poll raised
\* after the first had collected a link: the loop stands before its next
\* scroll, the collected link is kept, and a link the failed poll would
\* have added is still to collect
C25_Witness ==
    /\ cpc = "scroll"
    /\ events = 0
    /\ polls = 2
    /\ faults = 1
    /\ scroll_attempts = 1
    /\ Len(collected_links) >= 1
    /\ Collectable # {}

\* on a page that nothing but the loop changed, the loop has run and ended
\* before the list was full, before the attempt cap and away from the bottom: a
\* fault of the scroll or of the wait after it has ended it
BrokeOnScroll ==
    /\ cpc \in {"done", "returned"}
    /\ polls >= 1
    /\ events = 0
    /\ Len(collected_links) < num_links
    /\ scroll_attempts < max_scroll_attempts
    /\ ~AtBottom

\* the step is a scroll, or the wait after it, that raised
ScrollRaised ==
    /\ cpc \in {"scroll", "wait"}
    /\ faults' > faults

C27_ScanFaultSwallowed ==
    cpc = "returned" =>
        /\ pending[engine].result.error # "activate failed"
        /\ num_links > 0 => polls >= 1

(***************************************************************************)
(* Properties of the tracker when the page re-renders.                     *)
(***************************************************************************)
\* a timer of the script has fired and the scan has run
TimerScan ==
    /\ isHighlightingActive
    /\ mutationTimers' < mutationTimers \/ scrollTimers' < scrollTimers

\* the visible candidate headings of the page after the step
VisibleCandidates ==
    { n \in attached' : IsCandidate(engine, n)
                         /\ isElementVisible(n, hiddenCss', scrollY') }

\* C28: after a scan, every visible linked heading of the page is an active
\* entry that the poll visits, under the number its fingerprint was given:
\* the stored element is the live node, also when a node with the same
\* fingerprint has replaced the one the entry was made for.
C28_ReplacedNodeRebound ==
    [][TimerScan =>
        \A n \in VisibleCandidates :
            LET id == getElementId(engine, Heading[n])
            IN  /\ id \in LiveEntries(activeHighlights', attached')
                /\ activeHighlights'[id].number
                       = ProcessedGet(processedLinks', id).number]_vars

\* a scan has run in this step: a timer of the script fired while the
\* tracker was active, or the activate function was called
ScanRan == TimerScan \/ listeners' > listeners

\* C29: after every scan the active set is exactly the set of fingerprints
\* of the linked, organic headings visible in that scan; an entry that is
\* no longer visible is dropped from it, while every tracked record stays
\* in the all-time set with its number.
C29_ActiveIsVisible ==
    [][ScanRan =>
        /\ DOMAIN activeHighlights'
               = { getElementId(engine, Heading[n]) : n \in VisibleCandidates }
        /\ Len(processedLinks') >= Len(processedLinks)
        /\ \A i \in DOMAIN processedLinks :
               /\ processedLinks'[i].id = processedLinks[i].id
               /\ processedLinks'[i].number = processedLinks[i].number]_vars

\* a scan has dropped an entry whose record is still tracked (the tracker
\* was activated once and never cleared)
C29_Witness ==
    /\ isHighlightingActive /\ listeners = 1
    /\ scrollTimers = 0 /\ mutationTimers = 0
    /\ activeHighlights # EmptyMap
    /\ \E i \in DOMAIN processedLinks :
           processedLinks[i].id \notin DOMAIN activeHighlights

\* C30: while the tracker is not active (before the activation, after
\* clear-highlights), no step changes the counter, the tracked records or
\* the active set: events set no timer, and a timer that was pending when
\* the highlights were cleared fires without effect.
C30_InactiveScansNothing ==
    [][(~isHighlightingActive /\ ~isHighlightingActive') =>
        /\ UNCHANGED <<globalLinkCounter, processedLinks, activeHighlights>>
        /\ scrollTimers' <= scrollTimers
        /\ mutationTimers' <= mutationTimers]_vars

\* the highlights were cleared while a timer was pending, and a scan would
\* find a visible heading that the active set does not hold
C30_Witness ==
    /\ ~isHighlightingActive /\ listeners >= 1
    /\ scrollTimers + mutationTimers > 0
    /\ processedLinks # <<>>
    /\ \E n \in attached :
           /\ IsCandidate(engine, n)
           /\ isElementVisible(n, hiddenCss, scrollY)

(***************************************************************************)
(* Properties of the ancestor walk of isOrganicSearchResult (checked under *)
(* SpecClassify).                                                          *)
(***************************************************************************)
\* the heading matches no organic-container rule and no keyword rule
NoEarlyRule ==
    /\ ~h2.organicContainer
    /\ ~h2.resultItemIndicators
    /\ ~h2.keyword

\* C31: a heading that matches no organic-container rule and no keyword
\* rule is rejected when one of its first five ancestors (chain[2] to
\* chain[6]) carries a blocklisted class token.
C31_FiveAncestorLevels ==
    (/\ verdict # "none"
     /\ NoEarlyRule
     /\ \E i \in 2..6 : i <= Len(h2.chain) /\ Blocklisted(h2.chain[i])) =>
        verdict = "non-organic"

(***************************************************************************)
(* Properties of the timers of the script (checked under Spec).            *)
(***************************************************************************)
\* the nodes attached or detached since the page was loaded
ChangedNodes == (attached \ InitAttached) \cup (InitAttached \ attached)

\* the only two events of the page so far were two childList mutations of
\* two different headings, and one observer is registered and active
TwoMutations ==
    /\ isHighlightingActive /\ listeners = 1
    /\ events = 2
    /\ Cardinality(ChangedNodes) = 2
    /\ \A a, b \in ChangedNodes :
           a # b => getElementId(engine, Heading[a]) # getElementId(engine, Heading[b])

\* C32: mutation triggers are debounced: after a burst of two mutations
\* at most one re-scan is pending.
C32_MutationDebounced == TwoMutations => mutationTimers <= 1

(***************************************************************************)
(* Properties of headings with one fingerprint (checked under Spec).       *)
(***************************************************************************)
\* the tracked records of a fingerprint
RecordsOf(processed, id) == { i \in DOMAIN processed : processed[i].id = id }

\* the links of a poll that carry the number of an active fingerprint
LinksOf(active, att, id) ==
    LET links == getHighlightedLinksInfo(active, att)
    IN  { i \in DOMAIN links : links[i].number = active[id].number }

\* C33: two different headings with one fingerprint are one tracked link:
\* after a scan that saw both, the fingerprint has one tracked record and
\* one number, the counter has advanced once per fingerprint, there is one
\* active entry, and a poll that does not throw reports one link for the
\* two.
C33_SameFingerprintOneLink ==
    [][ScanRan =>
        \A a, b \in VisibleCandidates :
            LET id == getElementId(engine, Heading[a])
            IN  (a # b /\ id = getElementId(engine, Heading[b])) =>
                    /\ Cardinality(RecordsOf(processedLinks', id)) = 1
                    /\ globalLinkCounter' = Len(processedLinks')
                    /\ id \in DOMAIN activeHighlights'
                    /\ activeHighlights'[id].number
                           = ProcessedGet(processedLinks', id).number
                    /\ ~PollThrows(activeHighlights', attached') =>
                           Cardinality(LinksOf(activeHighlights', attached', id)) = 1]_vars

\* C33 witness: nodes 1 and 3 carry one fingerprint, both are visible, the
\* tracker was activated once, and no scan is pending
C33_Witness ==
    /\ {1, 3} \subseteq attached /\ hiddenCss = {} /\ scrollY = 0
    /\ isHighlightingActive /\ listeners = 1
    /\ scrollTimers = 0 /\ mutationTimers = 0
    /\ getElementId(engine, Heading[1]) \in DOMAIN activeHighlights
    /\ globalLinkCounter >= 2

(***************************************************************************)
(* Properties of the error a failed session reports (checked under         *)
(* SpecRun).                                                               *)
(***************************************************************************)
\* str(e) of the exception that a call of perform_search raised (the
\* click, the fill, the key press or one of the waits)
SearchFaultText == "search box call failed"

\* C34: a session that failed because a call of the search stage raised
\* reports the text of that fault as its error.
C34_ErrorIsFaultText ==
    \A e \in Engines :
        (/\ searched[e] = "fault"
         /\ pending[e].kind = "return"
         /\ pending[e].result.status = "failed") =>
            pending[e].result.error = SearchFaultText

(***************************************************************************)
(* Properties of the keep-open debug mode (checked under SpecRun).         *)
(***************************************************************************)
\* C35: with debug on, run closes no browser and stops no driver, on any
\* path: neither release call is ever entered.
C35_DebugKeepsOpen ==
    debug =>
        \A e \in Engines :
            /\ browser[e] # "closed"
            /\ driver[e] # "stopped"
            /\ \A i \in DOMAIN trace[e] : trace[e][i] \notin {"close", "stop"}

\* C35 witness: debug is on and both sessions have ended, one with its
\* links and one failed by a fault, each with its browser open and its
\* driver running
C35_Witness ==
    /\ debug
    /\ \A e \in Engines :
           /\ pc[e] = "done"
           /\ outcome[e].kind = "return"
           /\ browser[e] = "open"
           /\ driver[e] = "started"
    /\ outcome["Google"].result.status = "success"
    /\ outcome["Bing"].result.status = "failed"
    /\ outcome["Bing"].result.error = "activate failed"

(***************************************************************************)
(* Properties of the end of the collector loop (checked under SpecCollect).*)
(***************************************************************************)
\* the list holds as many links as were asked for
TargetReached == Len(collected_links) >= num_links

\* C36: once the list has reached the target the collector stops at once:
\* the poll that fills the list ends the loop, and from then on there is
\* no scroll, no poll and no bottom check, and the attempt counter stays.
C36_StopsAtTarget ==
    /\ [][(polls' # polls /\ Len(collected_links') >= num_links) =>
              cpc' = "done"]_vars
    /\ [][TargetReached =>
              /\ polls' = polls
              /\ scroll_attempts' = scroll_attempts
              /\ collected_links' = collected_links]_vars
    /\ [](TargetReached => cpc \notin {"scroll", "wait", "bottom"})

\* C36 witness: the second poll, after one scroll, has filled the list of
\* two; the loop has ended away from the bottom with one attempt counted
C36_Witness ==
    /\ cpc = "done"
    /\ num_links = 2
    /\ Len(collected_links) = 2
    /\ polls = 2
    /\ scroll_attempts = 1
    /\ ~AtBottom
    /\ faults = 0

(***************************************************************************)
(* Properties of the order of poll and scroll (checked under               *)
(* SpecCollectFair, where nothing but the loop changes the page).          *)
(***************************************************************************)
\* window.scrollY at the j-th poll: after j - 1 scrolls of the loop
PollPosition(j) ==
    IF (j - 1) * ScrollStep > MaxScrollY THEN MaxScrollY ELSE (j - 1) * ScrollStep

\* the step ends the loop because the bottom was detected, or because the
\* while condition found the attempt cap reached
BottomOrCapExit ==
    /\ cpc' = "done"
    /\ \/ cpc = "bottom"
       \/ cpc = "poll" /\ scroll_attempts >= max_scroll_attempts

\* the heading of a collected link was visible at one of the polls
SeenAtSomePoll(link, n) ==
    \E j \in 1..n : \E h \in attached :
        /\ Heading[h].text = link.title
        /\ isElementVisible(h, hiddenCss, PollPosition(j))

\* C37: in each iteration the poll precedes the scroll, and a loop that
\* ends at the bottom or at the attempt cap has polled as often as it has
\* scrolled, so not after its last scroll: every link it returns was
\* visible at the position of one of its polls.
C37_NoPollAfterLastScroll ==
    /\ [](cpc \in {"scroll", "wait"} => polls = scroll_attempts + 1)
    /\ [][BottomOrCapExit =>
              /\ polls' = scroll_attempts'
              /\ collected_links' = collected_links
              /\ \A i \in DOMAIN collected_links' :
                     SeenAtSomePoll(collected_links'[i], polls')]_vars

\* C37 witness: the loop has ended at the bottom after two polls and two
\* scrolls, and a heading that only the last scroll brought into view,
\* which the tracker has numbered, is not in the list
C37_Witness ==
    /\ cpc = "done" /\ faults = 0
    /\ AtBottom
    /\ polls = 2 /\ scroll_attempts = 2
    /\ Len(collected_links) < num_links
    /\ \E id \in LiveEntries(activeHighlights, attached) :
           LET link == LinkInfo(activeHighlights[id])
           IN  /\ ~IsExcluded(engine, link)
               /\ link.url \notin collected_urls
               /\ ~SeenAtSomePoll(link, polls)

(***************************************************************************)
(* Properties of a poll over a heading with a bad href (checked under      *)
(* SpecCollect).                                                           *)
(***************************************************************************)
\* the active headings that document.body contains
LiveHeadings == { activeHighlights[id].element :
                      id \in LiveEntries(activeHighlights, attached) }

\* one of them has an href that is no URL
BadHrefActive == \E n \in LiveHeadings : ~UrlParses(Heading[n].href)

\* C38: a poll is all or nothing: while an active, attached heading has an
\* href that does not parse, every poll fails as a whole and the collector
\* takes nothing from it, not the valid links either.
C38_PollAllOrNothing ==
    [][(polls' # polls /\ BadHrefActive) =>
          /\ collected_links' = collected_links
          /\ collected_urls' = collected_urls
          /\ cpc' = IF Len(collected_links) >= num_links THEN "done" ELSE "scroll"]_vars

\* C38 witness: the first poll found the heading with the bad href active
\* next to a heading with a valid link that qualifies, and collected
\* nothing
C38_Witness ==
    /\ cpc = "scroll" /\ polls = 1 /\ scrollY = 0
    /\ collected_links = <<>>
    /\ num_links >= 1
    /\ BadHrefActive
    /\ \E n \in LiveHeadings :
           /\ UrlParses(Heading[n].href)
           /\ ~IsExcluded(engine, LinkInfo([element |-> n, number |-> 0]))

(***************************************************************************)
(* Properties of the shape of the results (checked under SpecRun).         *)
(***************************************************************************)
\* a failed result has no links and an error text; a success has no error
WellFormed(r) ==
    /\ r.status \in {"success", "failed"}
    /\ r.status = "failed" => (r.links = <<>> /\ r.error # None)
    /\ r.status = "success" => r.error = None

\* what format_results has shown for a source
ShownFor(source) == IF source = "Google" THEN shown.google ELSE shown.bing

\* C39: every result that run returns and every result that run_scrapers
\* hands on is well formed, and the formatter shows no link of a failed
\* engine.
C39_ResultsWellFormed ==
    /\ \A e \in Engines :
           /\ pending[e].kind = "return" => WellFormed(pending[e].result)
           /\ outcome[e].kind = "return" => WellFormed(outcome[e].result)
    /\ opc # "gather" =>
           /\ Len(results) = 2
           /\ \A i \in DOMAIN results : WellFormed(results[i])
    /\ opc = "formatted" =>
           \A i \in DOMAIN results :
               results[i].status = "failed" => ShownFor(results[i].source) = <<>>

\* C39 witness: the results are formatted; Google's session raised out of
\* run and its failure was made by run_scrapers, Bing's session returned
\* its links
C39_Witness ==
    /\ opc = "formatted"
    /\ outcome["Google"].kind = "raise"
    /\ results[1].status = "failed" /\ results[1].error # None
    /\ results[2].status = "success" /\ results[2].links # <<>>
    /\ shown.bing # <<>>

(***************************************************************************)
(* Properties of the two sets of the tracker (checked under Spec).         *)
(***************************************************************************)
\* C40: after every scan each active fingerprint is tracked, under the
\* number of its tracked record; and no step, clear-highlights and a
\* repeated injection included, takes a record away, changes one, or
\* lowers the counter.
C40_ActiveWithinTracked ==
    /\ [][ScanRan =>
              \A id \in DOMAIN activeHighlights' :
                  /\ ProcessedHas(processedLinks', id)
                  /\ activeHighlights'[id].number
                         = ProcessedGet(processedLinks', id).number]_vars
    /\ [][/\ globalLinkCounter' >= globalLinkCounter
          /\ Len(processedLinks') >= Len(processedLinks)
          /\ \A i \in DOMAIN processedLinks :
                 processedLinks'[i] = processedLinks[i]]_vars

\* C40 witness: after the activation the page was scrolled and scanned,
\* then the highlights were cleared: the records and the counter are
\* still there
C40_Witness ==
    /\ injected /\ ~isHighlightingActive /\ listeners = 1
    /\ events >= 2
    /\ activeHighlights = EmptyMap
    /\ globalLinkCounter >= 3
    /\ Len(processedLinks) = globalLinkCounter

=============================================================================
